---------------------------- MODULE Spec2Model ----------------------------
(***************************************************************************)
(* RSI threshold strategy backtest (hkj991123/JTrading, src/backtest).     *)
(*                                                                         *)
(* The simulators are loops over the rows of a price frame.  One step of   *)
(* the model is one iteration of such a loop: the dividend handling, the   *)
(* signal check and the daily snapshot of that row.  The frame (closing    *)
(* prices, the RSI column computed from them, the dividend dictionary) and *)
(* the parameters of the run are fixed by Init.                            *)
(*                                                                         *)
(* Money and share quantities are exact rationals <<n, d>> with d > 0,     *)
(* kept in lowest terms; <<0, 0>> is NaN (pandas' "RSI not available").    *)
(* Python floats are modelled by these exact values: rounding error of     *)
(* IEEE arithmetic is outside the model.  Dates are the row numbers        *)
(* 1..Len(close) (the frames are sorted by date, one row per date).        *)
(***************************************************************************)
EXTENDS Integers, Sequences, FiniteSets, TLC

(***************************************************************************)
(* Bounds of the model.                                                    *)
(***************************************************************************)
MaxDays == 5

\* closing prices the rows draw from: one that leaves cash over after the
\* first whole-lot buy, two above INITIAL_CAPITAL / 100 (no lot is affordable
\* before a gain)
Prices == {400, 1200, 1500}

\* RSI periods of the runs.  run_backtest_ideal takes rsi_period as an
\* argument; the other simulators read the module setting RSI_PERIOD (14, or
\* 5 in test_rsi5_40_70.py).  The runs of the model use short periods, so
\* that frames of MaxDays rows have rows with an RSI and rows without.
Periods == {2, 3}

\* (buy_threshold, sell_threshold) of the runs that take them as arguments;
\* the second pair has buy_threshold > sell_threshold, which run_backtest
\* itself does not refuse
ThresholdPairs == {<<30, 70>>, <<60, 40>>}

\* the inputs of the indicator calculators when they run on their own:
\* closing prices and periods, period 1 and periods longer than the frame
\* included
IndicatorPrices == {1, 2, 4, 7}
IndicatorPeriods == {1, 2, 3, 4}

\* the parameter ranges of the sweep (RSI_PERIODS, BUY_THRESHOLDS,
\* SELL_THRESHOLDS), in loop order; the threshold ranges of the model overlap,
\* so that the grid's `buy_th < sell_th` test has something to drop
\* the closes of the frame the sweep reads from backtest_result.json; a close
\* of 0 is one the buy sizing cannot divide by
SweepPrices == {0, 400, 700}

\* the inputs of the statistics functions: the dates of the daily values (day
\* numbers; 366 is one year after 1), their total values, the prices of the
\* trades and the longest trade list
StatDates == {1, 3, 366}
StatValues == {99996, 100000, 200000}
StatPrices == {400, 500}
MaxStatTrades == 3

\* the closes of a benchmark frame
BenchmarkPrices == {400, 500}
SweepPeriods == <<2, 3>>
SweepBuyThresholds == <<30, 60>>
SweepSellThresholds == <<40, 60, 70>>

\* the rows that are dividend dates, per run
DividendDateSets == {{}, {3}, {2, 4}}

(***************************************************************************)
(* Program constants.                                                      *)
(***************************************************************************)
INITIAL_CAPITAL == 100000
LotSize == 100
RSI_BUY_THRESHOLD == 66
RSI_SELL_THRESHOLD == 81
DivTestBuyThreshold == 40
DivTestSellThreshold == 70

(***************************************************************************)
(* Exact rational arithmetic (the model of Python float arithmetic).       *)
(***************************************************************************)
RECURSIVE GCD(_, _)
GCD(a, b) == IF b = 0 THEN a ELSE GCD(b, a % b)

Abs(n) == IF n < 0 THEN -n ELSE n

NaN == <<0, 0>>
IsNaN(x) == x[2] = 0

RNorm(n, d) ==
    LET g == GCD(Abs(n), d)
    IN  IF n = 0 THEN <<0, 1>> ELSE <<(Abs(n) \div g) * (IF n < 0 THEN -1 ELSE 1), d \div g>>

R(n) == <<n, 1>>
RAdd(x, y) ==
    LET g == GCD(x[2], y[2])
    IN  RNorm(x[1] * (y[2] \div g) + y[1] * (x[2] \div g), (x[2] \div g) * y[2])
RNeg(x) == <<-x[1], x[2]>>
RSub(x, y) == RAdd(x, RNeg(y))
RMul(x, y) ==
    LET a == RNorm(x[1], y[2])
        b == RNorm(y[1], x[2])
    IN  <<a[1] * b[1], a[2] * b[2]>>
\* division by a non-zero value
RDiv(x, y) ==
    IF y[1] > 0 THEN RMul(x, <<y[2], y[1]>>) ELSE RMul(x, <<-y[2], -y[1]>>)
RLt(x, y) == x[1] * y[2] < y[1] * x[2]
RLe(x, y) == x[1] * y[2] <= y[1] * x[2]
RGt(x, y) == RLt(y, x)
RGe(x, y) == RLe(y, x)
IsInt(x) == x[2] = 1
\* Python int(): truncation toward zero
PyInt(x) == IF x[1] >= 0 THEN x[1] \div x[2] ELSE -((-x[1]) \div x[2])
\* Python round(x, 2) on exact values: nearest hundredth, ties to even
Round2(x) ==
    LET s  == RMul(x, R(100))
        fl == IF s[1] >= 0 THEN s[1] \div s[2] ELSE -(((-s[1]) + s[2] - 1) \div s[2])
        fr == RSub(s, R(fl))
        up == \/ RGt(fr, <<1, 2>>)
              \/ fr = <<1, 2>> /\ fl % 2 = 1
    IN  RNorm(IF up THEN fl + 1 ELSE fl, 100)

(***************************************************************************)
(* Indicator calculator.                                                   *)
(***************************************************************************)
\* delta = prices.diff(); gain = delta.where(delta > 0, 0): the first row's
\* delta is NaN, NaN > 0 is False, so gain and loss are 0 there
gain(prices) ==
    [k \in 1..Len(prices) |->
        IF k > 1 /\ prices[k] - prices[k - 1] > 0 THEN R(prices[k] - prices[k - 1]) ELSE R(0)]
loss(prices) ==
    [k \in 1..Len(prices) |->
        IF k > 1 /\ prices[k] - prices[k - 1] < 0 THEN R(prices[k - 1] - prices[k]) ELSE R(0)]

\* x[lo] + ... + x[hi]
RECURSIVE SumTo(_, _, _)
SumTo(x, lo, hi) ==
    IF hi < lo THEN R(0) ELSE RAdd(SumTo(x, lo, hi - 1), x[hi])

\* averages that start one row later, seeded by the mean of rows 2..period+1
\* (the first row has no price change)
RECURSIVE WilderAvg_LateSeed(_, _, _)
WilderAvg_LateSeed(x, p, k) ==
    IF k <= p THEN NaN
    ELSE IF k = p + 1 THEN RDiv(SumTo(x, 2, p + 1), R(p))
    ELSE RDiv(RAdd(RMul(WilderAvg_LateSeed(x, p, k - 1), R(p - 1)), x[k]), R(p))

\* averages whose rolling mean has no min_periods: before row `period` the
\* mean of the rows so far
RECURSIVE WilderAvg_NoMinPeriods(_, _, _)
WilderAvg_NoMinPeriods(x, p, k) ==
    IF k < p THEN RDiv(SumTo(x, 1, k), R(k))
    ELSE IF k = p THEN RDiv(SumTo(x, 1, p), R(p))
    ELSE RDiv(RAdd(RMul(WilderAvg_NoMinPeriods(x, p, k - 1), R(p - 1)), x[k]), R(p))

\* rolling(window=period, min_periods=period).mean() at row `period`, then
\* avg[i] = (avg[i-1] * (period - 1) + x[i]) / period for the later rows;
\* NaN before row `period` (Python index period - 1)
RECURSIVE WilderAvg(_, _, _)
WilderAvg(x, p, k) ==
    IF k < p THEN NaN
    ELSE IF k = p THEN RDiv(SumTo(x, 1, p), R(p))
    ELSE RDiv(RAdd(RMul(WilderAvg(x, p, k - 1), R(p - 1)), x[k]), R(p))

\* ewm(alpha=1/period, adjust=False).mean():
\* y[1] = x[1], y[k] = (1 - alpha) * y[k-1] + alpha * x[k]
RECURSIVE EwmRaw(_, _, _)
EwmRaw(x, p, k) ==
    IF k = 1 THEN x[1]
    ELSE RAdd(RMul(RSub(R(1), <<1, p>>), EwmRaw(x, p, k - 1)), RMul(<<1, p>>, x[k]))
\* min_periods=period: NaN before row `period`
EwmAvg(x, p, k) == IF k < p THEN NaN ELSE EwmRaw(x, p, k)

\* an RSI that is 100 * rs
RsiFromAverages_RsPercent(avg_gain, avg_loss) ==
    IF IsNaN(avg_gain) \/ IsNaN(avg_loss) THEN NaN
    ELSE IF avg_loss[1] = 0 THEN (IF avg_gain[1] = 0 THEN NaN ELSE R(100))
    ELSE RMul(R(100), RDiv(avg_gain, avg_loss))

\* rs = avg_gain / avg_loss; rsi = 100 - (100 / (1 + rs)), in IEEE terms:
\* x / 0 is inf for x > 0 (rsi = 100) and 0 / 0 is NaN
RsiFromAverages(avg_gain, avg_loss) ==
    IF IsNaN(avg_gain) \/ IsNaN(avg_loss) THEN NaN
    ELSE IF avg_loss[1] = 0 THEN (IF avg_gain[1] = 0 THEN NaN ELSE R(100))
    ELSE RSub(R(100), RDiv(R(100), RAdd(R(1), RDiv(avg_gain, avg_loss))))

\* rsi_full_optimization.calculate_rsi: rolling(window=period,
\* min_periods=period).mean(), every row from row `period` on
RollingMean(x, p, k) ==
    IF k < p THEN NaN ELSE RDiv(SumTo(x, k - p + 1, k), R(p))

\* rsi_full_optimization.calculate_rsi, rows 1..k: the averages of row k
\* and the RSI of the rows so far.  "EMA平滑": from row period + 1 on the
\* rolling means are overwritten by the smoothed averages, where the previous
\* average gain is not NaN
RECURSIVE FullOptAverages(_, _, _, _)
FullOptAverages(g, l, p, k) ==
    IF k = 0 THEN [avg_gain |-> NaN, avg_loss |-> NaN, rsi |-> <<>>]
    ELSE LET prev     == FullOptAverages(g, l, p, k - 1)
             smooth   == k > p /\ ~IsNaN(prev.avg_gain)
             avg_gain == IF smooth
                         THEN RDiv(RAdd(RMul(prev.avg_gain, R(p - 1)), g[k]), R(p))
                         ELSE RollingMean(g, p, k)
             avg_loss == IF smooth
                         THEN RDiv(RAdd(RMul(prev.avg_loss, R(p - 1)), l[k]), R(p))
                         ELSE RollingMean(l, p, k)
         IN  [avg_gain |-> avg_gain, avg_loss |-> avg_loss,
              rsi |-> Append(prev.rsi, RsiFromAverages(avg_gain, avg_loss))]

calculate_rsi(prices, p) ==
    [k \in 1..Len(prices) |->
        RsiFromAverages(WilderAvg(gain(prices), p, k), WilderAvg(loss(prices), p, k))]

calculate_rsi_ema(prices, p) ==
    [k \in 1..Len(prices) |->
        RsiFromAverages(EwmAvg(gain(prices), p, k), EwmAvg(loss(prices), p, k))]

\* rsi_full_optimization.calculate_rsi
FullOptCalculateRsi(prices, p) ==
    FullOptAverages(gain(prices), loss(prices), p, Len(prices)).rsi

(***************************************************************************)
(* State.                                                                  *)
(***************************************************************************)
VARIABLES
    variant,        \* which simulator runs (one per source function)
    period,         \* RSI period of the run
    buy_threshold,  \* buy below this RSI
    sell_threshold, \* sell above this RSI
    close,          \* df['close'], one price per row, by row number
    rsi,            \* df['rsi'], computed from close before the loop
    dividend_dict,  \* dividend per share, by dividend date
    i,              \* number of rows the loop has processed
    cash,
    shares,
    position,       \* 0: flat, 1: long
    trades,
    daily_values,
    dividend_total, \* rsi_dividend_test: sum of the dividends received
    dividend_cash,  \* run_backtest_no_reinvest: the separate dividend account
    result,         \* rsi_dividend_test: the dictionary the run returns
    entry,          \* rsi_full_optimization: the function that was called
    combinations,   \* rsi_full_optimization: the (period, buy, sell) to run
    results,        \* rsi_full_optimization: what the runs returned, in order
    locals,         \* rsi_full_optimization.run_backtest: the locals of the call
    previous,       \* rsi_backtest: the outputs of an earlier run on the same input
    report          \* rsi_full_optimization.main: what it reports after the sweep

vars == <<variant, period, buy_threshold, sell_threshold, close, rsi, dividend_dict,
          i, cash, shares, position, trades, daily_values, dividend_total, dividend_cash,
          result, entry, combinations, results, locals, previous, report>>

\* the variables of the parameter sweep
sweep_vars == <<entry, combinations, results, locals, report>>

\* the simulators
Variants == {"lot", "lotdiv", "ideal", "immediate", "on_signal", "no_reinvest"}
DividendVariants == {"lotdiv", "immediate", "on_signal", "no_reinvest"}
\* the simulators that buy and sell whole lots
LotVariants == Variants \ {"ideal"}

\* trade actions: '买入', '卖出', '分红再投'
Buy == "buy"
Sell == "sell"
DividendReinvest == "dividend_reinvest"

\* 'rsi': rsi if pd.notna(rsi) else None
None == <<>>

\* dividend per share on a dividend date (DIVIDEND_DATA holds 0.028 .. 0.074)
DividendPerShare == <<1, 20>>

\* the loop's local state, as one value
State == [cash |-> cash, shares |-> shares, position |-> position, trades |-> trades,
          daily_values |-> daily_values, dividend_total |-> dividend_total,
          dividend_cash |-> dividend_cash]

\* the row the next iteration reads
Row == [date |-> i + 1, close |-> R(close[i + 1]), rsi |-> rsi[i + 1]]

(***************************************************************************)
(* Trade simulator: the pieces of one loop iteration.                      *)
(***************************************************************************)
\* a signal check that does not look at the position
Signal_NoPositionCheck(r, pos, buy_th, sell_th) ==
    IF IsNaN(r) THEN "hold"
    ELSE IF RLt(r, R(buy_th)) THEN "buy"
    ELSE IF RGt(r, R(sell_th)) THEN "sell"
    ELSE "hold"

\* The branch the signal check takes:
\*   if pd.notna(rsi):
\*       if rsi < buy_threshold and position == 0: ...
\*       elif rsi > sell_threshold and position == 1: ...
Signal(r, pos, buy_th, sell_th) ==
    IF IsNaN(r) THEN "hold"
    ELSE IF RLt(r, R(buy_th)) /\ pos = 0 THEN "buy"
    ELSE IF RGt(r, R(sell_th)) /\ pos = 1 THEN "sell"
    ELSE "hold"

\* a buy quantity rounded up to whole lots
shares_to_buy_RoundedUp(c, price) ==
    LET q == RDiv(RDiv(c, price), R(LotSize))
    IN  R((IF IsInt(q) THEN PyInt(q) ELSE PyInt(q) + 1) * LotSize)

\* a buy quantity that is not rounded down to whole lots
shares_to_buy_Unrounded(c, price) == R(PyInt(RDiv(c, price)))

\* shares_to_buy = int(cash / price / 100) * 100
shares_to_buy(c, price) == R(PyInt(RDiv(RDiv(c, price), R(LotSize))) * LotSize)

\* the whole lots strictly below the holding
sell_shares_BelowHolding(sh) == R(PyInt(RDiv(RSub(sh, R(1)), R(LotSize))) * LotSize)

\* sell_shares = int(shares / 100) * 100
sell_shares(sh) == R(PyInt(RDiv(sh, R(LotSize))) * LotSize)

\* a remainder that is dropped without being paid for
SellRemainder_NoCredit(c, sh, price) ==
    IF RLt(sh, R(LotSize)) THEN [cash |-> c, shares |-> R(0)]
    ELSE [cash |-> c, shares |-> sh]

\* a sell that leaves the remainder below one lot as shares
SellRemainder_Kept(c, sh, price) == [cash |-> c, shares |-> sh]

\* if shares < 100: cash += shares * price; shares = 0
\* (the remainder below one lot is sold with the lots)
SellRemainder(c, sh, price) ==
    IF RLt(sh, R(LotSize)) THEN [cash |-> RAdd(c, RMul(sh, price)), shares |-> R(0)]
    ELSE [cash |-> c, shares |-> sh]

\* a buy without `if shares_to_buy > 0`
LotBuy_NoZeroCheck(s, row) ==
    LET q    == shares_to_buy(s.cash, row.close)
        cost == RMul(q, row.close)
    IN  [s EXCEPT !.cash = RSub(s.cash, cost),
                  !.shares = RAdd(s.shares, q),
                  !.position = 1,
                  !.trades = Append(s.trades,
                      [date |-> row.date, action |-> Buy, price |-> row.close,
                       shares |-> q, amount |-> cost, rsi |-> row.rsi,
                       total_shares |-> RAdd(s.shares, q),
                       cash |-> RSub(s.cash, cost)])]

\* a whole-lot buy that empties the cash account, as the fractional buy does
LotBuy_SpendsAllCash(s, row) ==
    LET q == shares_to_buy(s.cash, row.close)
    IN  IF RGt(q, R(0)) THEN
            [s EXCEPT !.cash = R(0),
                      !.shares = RAdd(s.shares, q),
                      !.position = 1,
                      !.trades = Append(s.trades,
                          [date |-> row.date, action |-> Buy, price |-> row.close,
                           shares |-> q, amount |-> s.cash, rsi |-> row.rsi,
                           total_shares |-> RAdd(s.shares, q), cash |-> R(0)])]
        ELSE s

\* rsi_backtest.run_backtest, "买入信号：满仓买入"
LotBuy(s, row) ==
    LET q    == shares_to_buy(s.cash, row.close)
        cost == RMul(q, row.close)
    IN  IF RGt(q, R(0)) THEN
            [s EXCEPT !.cash = RSub(s.cash, cost),
                      !.shares = RAdd(s.shares, q),
                      !.position = 1,
                      !.trades = Append(s.trades,
                          [date |-> row.date, action |-> Buy, price |-> row.close,
                           shares |-> q, amount |-> cost, rsi |-> row.rsi,
                           total_shares |-> RAdd(s.shares, q),
                           cash |-> RSub(s.cash, cost)])]
        ELSE s

\* rsi_backtest.run_backtest, "卖出信号：全部卖出"
LotSell(s, row) ==
    IF RGt(s.shares, R(0)) THEN
        LET q       == sell_shares(s.shares)
            revenue == RMul(q, row.close)
            rest    == SellRemainder(RAdd(s.cash, revenue), RSub(s.shares, q), row.close)
        IN  IF RGt(q, R(0)) THEN
                [s EXCEPT !.cash = rest.cash,
                          !.shares = rest.shares,
                          !.position = 0,
                          !.trades = Append(s.trades,
                              [date |-> row.date, action |-> Sell, price |-> row.close,
                               shares |-> q, amount |-> revenue, rsi |-> row.rsi,
                               total_shares |-> rest.shares, cash |-> rest.cash])]
            ELSE s
    ELSE s

\* `if ... if` in place of `if ... elif`: the sell check runs after the buy
LotSignal_SecondIf(s, row, buy_th, sell_th) ==
    LET s1 == IF Signal(row.rsi, s.position, buy_th, sell_th) = "buy" THEN LotBuy(s, row)
              ELSE s
    IN  IF ~IsNaN(row.rsi) /\ RGt(row.rsi, R(sell_th)) /\ s1.position = 1
        THEN LotSell(s1, row) ELSE s1

\* rsi_backtest.run_backtest, "RSI信号判断": the signal check of one row
LotSignal(s, row, buy_th, sell_th) ==
    LET branch == Signal(row.rsi, s.position, buy_th, sell_th)
    IN  IF branch = "buy" THEN LotBuy(s, row)
        ELSE IF branch = "sell" THEN LotSell(s, row)
        ELSE s

\* "计算当日总资产": the daily snapshot, appended after the signal check
Snapshot(s, row) ==
    LET total_value == RAdd(s.cash, RMul(s.shares, row.close))
    IN  [s EXCEPT !.daily_values = Append(s.daily_values,
            [date |-> row.date, close |-> row.close,
             rsi |-> IF IsNaN(row.rsi) THEN None ELSE row.rsi,
             cash |-> s.cash, shares |-> s.shares, total_value |-> total_value,
             return |-> RMul(RSub(RDiv(total_value, R(INITIAL_CAPITAL)), R(1)), R(100))])]

\* the snapshot taken before the signal check
RunBacktestRow_SnapshotFirst(s, row) ==
    LotSignal(Snapshot(s, row), row, RSI_BUY_THRESHOLD, RSI_SELL_THRESHOLD)

\* one iteration of rsi_backtest.run_backtest
RunBacktestRow(s, row) ==
    Snapshot(LotSignal(s, row, RSI_BUY_THRESHOLD, RSI_SELL_THRESHOLD), row)

\* a dividend handled whether or not shares are held
ReinvestDividend_NoSharesCheck(s, row, dict) ==
    IF row.date \in DOMAIN dict THEN
        LET dividend_amount == RMul(s.shares, dict[row.date])
            new_shares      == RDiv(dividend_amount, row.close)
        IN  [s EXCEPT !.shares = RAdd(s.shares, new_shares),
                      !.trades = Append(s.trades,
                          [date |-> row.date, action |-> DividendReinvest,
                           price |-> row.close, shares |-> new_shares,
                           amount |-> dividend_amount,
                           rsi |-> IF IsNaN(row.rsi) THEN None ELSE row.rsi,
                           total_shares |-> RAdd(s.shares, new_shares),
                           cash |-> s.cash])]
    ELSE s

\* generate_66_81_data.run_backtest, "处理分红": the dividend of a dividend
\* date is reinvested at the close, before the signal check
ReinvestDividend(s, row, dict) ==
    IF row.date \in DOMAIN dict /\ RGt(s.shares, R(0)) THEN
        LET dividend_per_share == dict[row.date]
            dividend_amount    == RMul(s.shares, dividend_per_share)
            new_shares         == RDiv(dividend_amount, row.close)
        IN  [s EXCEPT !.shares = RAdd(s.shares, new_shares),
                      !.trades = Append(s.trades,
                          [date |-> row.date, action |-> DividendReinvest,
                           price |-> row.close, shares |-> new_shares,
                           amount |-> dividend_amount,
                           rsi |-> IF IsNaN(row.rsi) THEN None ELSE row.rsi,
                           total_shares |-> RAdd(s.shares, new_shares),
                           cash |-> s.cash])]
    ELSE s

\* the dividend handled after the signal check
RunBacktestDividendRow_DividendLast(s, row, dict, buy_th, sell_th) ==
    Snapshot(ReinvestDividend(LotSignal(s, row, buy_th, sell_th), row, dict), row)

\* one iteration of generate_66_81_data.run_backtest (its signal check and
\* snapshot are those of rsi_backtest.run_backtest, with the thresholds as
\* arguments)
RunBacktestDividendRow(s, row, dict, buy_th, sell_th) ==
    Snapshot(LotSignal(ReinvestDividend(s, row, dict), row, buy_th, sell_th), row)

\* a fractional-mode buy that buys whole lots only
IdealBuy_WholeLots(s, row) == LotBuy(s, row)

\* run_backtest_ideal, "全仓买入（允许小数份额）"
IdealBuy(s, row) ==
    LET q    == RDiv(s.cash, row.close)
        cost == s.cash
    IN  [s EXCEPT !.cash = R(0),
                  !.shares = q,
                  !.position = 1,
                  !.trades = Append(s.trades,
                      [date |-> row.date, action |-> Buy, price |-> row.close,
                       shares |-> q, amount |-> cost, rsi |-> row.rsi,
                       total_shares |-> q, cash |-> R(0)])]

\* a sell without `shares = 0.0`
IdealSell_KeepsShares(s, row) ==
    LET revenue == RMul(s.shares, row.close)
    IN  [s EXCEPT !.cash = revenue,
                  !.position = 0,
                  !.trades = Append(s.trades,
                      [date |-> row.date, action |-> Sell, price |-> row.close,
                       shares |-> s.shares, amount |-> revenue, rsi |-> row.rsi,
                       total_shares |-> s.shares, cash |-> revenue])]

\* run_backtest_ideal, "全仓卖出"
IdealSell(s, row) ==
    LET revenue == RMul(s.shares, row.close)
    IN  [s EXCEPT !.cash = revenue,
                  !.shares = R(0),
                  !.position = 0,
                  !.trades = Append(s.trades,
                      [date |-> row.date, action |-> Sell, price |-> row.close,
                       shares |-> s.shares, amount |-> revenue, rsi |-> row.rsi,
                       total_shares |-> R(0), cash |-> revenue])]

\* generate_multi_strategy_data.run_backtest_ideal: the signal check of one
\* row, fractional shares
IdealSignal(s, row, buy_th, sell_th) ==
    LET branch == Signal(row.rsi, s.position, buy_th, sell_th)
    IN  IF branch = "buy" THEN IdealBuy(s, row)
        ELSE IF branch = "sell" THEN IdealSell(s, row)
        ELSE s

\* one iteration of run_backtest_ideal
RunBacktestIdealRow(s, row, buy_th, sell_th) ==
    Snapshot(IdealSignal(s, row, buy_th, sell_th), row)

\* rsi_dividend_test.run_backtest_reinvest_immediate, "处理分红：立即再投资"
DividendImmediate(s, row, dict) ==
    IF row.date \in DOMAIN dict /\ RGt(s.shares, R(0)) THEN
        LET dividend_amount == RMul(s.shares, dict[row.date])
            new_shares      == RDiv(dividend_amount, row.close)
        IN  [s EXCEPT !.dividend_total = RAdd(s.dividend_total, dividend_amount),
                      !.shares = RAdd(s.shares, new_shares)]
    ELSE s

\* a dividend that buys shares at once where it should wait in cash
DividendToCash_Reinvested(s, row, dict) == DividendImmediate(s, row, dict)

\* rsi_dividend_test.run_backtest_reinvest_on_signal, "处理分红：累积到现金"
DividendToCash(s, row, dict) ==
    IF row.date \in DOMAIN dict /\ RGt(s.shares, R(0)) THEN
        LET dividend_amount == RMul(s.shares, dict[row.date])
        IN  [s EXCEPT !.dividend_total = RAdd(s.dividend_total, dividend_amount),
                      !.cash = RAdd(s.cash, dividend_amount)]
    ELSE s

\* a dividend that is put into the trading cash as well as the side account
DividendSeparate_IntoCash(s, row, dict) ==
    IF row.date \in DOMAIN dict /\ RGt(s.shares, R(0)) THEN
        LET dividend_amount == RMul(s.shares, dict[row.date])
        IN  [s EXCEPT !.dividend_total = RAdd(s.dividend_total, dividend_amount),
                      !.dividend_cash = RAdd(s.dividend_cash, dividend_amount),
                      !.cash = RAdd(s.cash, dividend_amount)]
    ELSE s

\* rsi_dividend_test.run_backtest_no_reinvest, "处理分红：单独记录，不投资"
DividendSeparate(s, row, dict) ==
    IF row.date \in DOMAIN dict /\ RGt(s.shares, R(0)) THEN
        LET dividend_amount == RMul(s.shares, dict[row.date])
        IN  [s EXCEPT !.dividend_total = RAdd(s.dividend_total, dividend_amount),
                      !.dividend_cash = RAdd(s.dividend_cash, dividend_amount)]
    ELSE s

\* rsi_dividend_test: the buy of the three dividend policies
DivTestBuy(s, row) ==
    LET q == shares_to_buy(s.cash, row.close)
    IN  IF RGt(q, R(0)) THEN
            [s EXCEPT !.cash = RSub(s.cash, RMul(q, row.close)),
                      !.shares = RAdd(s.shares, q),
                      !.position = 1,
                      !.trades = Append(s.trades,
                          [date |-> row.date, action |-> Buy, rsi |-> Round2(row.rsi)])]
        ELSE s

\* rsi_dividend_test: the sell of the three dividend policies (it has no
\* `if sell_shares > 0`)
DivTestSell(s, row) ==
    IF RGt(s.shares, R(0)) THEN
        LET q    == sell_shares(s.shares)
            rest == SellRemainder(RAdd(s.cash, RMul(q, row.close)), RSub(s.shares, q),
                                  row.close)
        IN  [s EXCEPT !.cash = rest.cash,
                      !.shares = rest.shares,
                      !.position = 0,
                      !.trades = Append(s.trades,
                          [date |-> row.date, action |-> Sell, rsi |-> Round2(row.rsi)])]
    ELSE s

\* rsi_dividend_test: the signal check shared by the three dividend policies
DivTestSignal(s, row, buy_th, sell_th) ==
    LET branch == Signal(row.rsi, s.position, buy_th, sell_th)
    IN  IF branch = "buy" THEN DivTestBuy(s, row)
        ELSE IF branch = "sell" THEN DivTestSell(s, row)
        ELSE s

\* one iteration of each rsi_dividend_test simulator
ReinvestImmediateRow(s, row, dict) ==
    DivTestSignal(DividendImmediate(s, row, dict), row, DivTestBuyThreshold, DivTestSellThreshold)
ReinvestOnSignalRow(s, row, dict) ==
    DivTestSignal(DividendToCash(s, row, dict), row, DivTestBuyThreshold, DivTestSellThreshold)
NoReinvestRow(s, row, dict) ==
    DivTestSignal(DividendSeparate(s, row, dict), row, DivTestBuyThreshold, DivTestSellThreshold)

(***************************************************************************)
(* Initial states: the arguments of a run and the loop's initial locals.   *)
(***************************************************************************)
PriceSeries == UNION {[1..n -> Prices] : n \in 1..MaxDays}

ThresholdsOf(v) ==
    IF v = "lot" THEN {<<RSI_BUY_THRESHOLD, RSI_SELL_THRESHOLD>>}
    ELSE IF v \in {"immediate", "on_signal", "no_reinvest"}
         THEN {<<DivTestBuyThreshold, DivTestSellThreshold>>}
    ELSE ThresholdPairs

DividendDictsOf(v) ==
    IF v \in DividendVariants
    THEN {[d \in S |-> DividendPerShare] : S \in DividendDateSets}
    ELSE {[d \in {} |-> DividendPerShare]}

Init ==
    /\ variant \in Variants
    /\ period \in Periods
    /\ \E th \in ThresholdsOf(variant) : buy_threshold = th[1] /\ sell_threshold = th[2]
    /\ close \in PriceSeries
    /\ rsi = IF variant = "ideal" THEN calculate_rsi_ema(close, period)
             ELSE calculate_rsi(close, period)
    /\ dividend_dict \in DividendDictsOf(variant)
    /\ i = 0
    /\ cash = R(INITIAL_CAPITAL)
    /\ shares = R(0)
    /\ position = 0
    /\ trades = <<>>
    /\ daily_values = <<>>
    /\ dividend_total = R(0)
    /\ dividend_cash = R(0)
    /\ result = None
    /\ entry = "none"
    /\ combinations = <<>>
    /\ results = <<>>
    /\ locals = None
    /\ previous = None
    /\ report = None

\* the loop's locals after an iteration that left them as s
Assign(s) ==
    /\ cash' = s.cash
    /\ shares' = s.shares
    /\ position' = s.position
    /\ trades' = s.trades
    /\ daily_values' = s.daily_values
    /\ dividend_total' = s.dividend_total
    /\ dividend_cash' = s.dividend_cash
    /\ i' = i + 1
    /\ UNCHANGED <<variant, period, buy_threshold, sell_threshold, close, rsi, dividend_dict,
                   result>>
    /\ UNCHANGED <<sweep_vars, previous>>

\* rsi_backtest.run_backtest: lot mode, no dividends
RunBacktest ==
    /\ variant = "lot"
    /\ i < Len(close)
    /\ Assign(RunBacktestRow(State, Row))

\* generate_66_81_data.run_backtest: lot mode, dividends reinvested at once
RunBacktestDividend ==
    /\ variant = "lotdiv"
    /\ i < Len(close)
    /\ Assign(RunBacktestDividendRow(State, Row, dividend_dict, buy_threshold, sell_threshold))

\* generate_multi_strategy_data.run_backtest_ideal: fractional mode, EMA RSI
RunBacktestIdeal ==
    /\ variant = "ideal"
    /\ i < Len(close)
    /\ Assign(RunBacktestIdealRow(State, Row, buy_threshold, sell_threshold))

\* rsi_dividend_test.run_backtest_reinvest_immediate
RunBacktestReinvestImmediate ==
    /\ variant = "immediate"
    /\ i < Len(close)
    /\ Assign(ReinvestImmediateRow(State, Row, dividend_dict))

\* rsi_dividend_test.run_backtest_reinvest_on_signal
RunBacktestReinvestOnSignal ==
    /\ variant = "on_signal"
    /\ i < Len(close)
    /\ Assign(ReinvestOnSignalRow(State, Row, dividend_dict))

\* rsi_dividend_test.run_backtest_no_reinvest
RunBacktestNoReinvest ==
    /\ variant = "no_reinvest"
    /\ i < Len(close)
    /\ Assign(NoReinvestRow(State, Row, dividend_dict))

\* what the rsi_dividend_test simulators return, other than the name
DivTestResult(s, final_value) ==
    [final_value    |-> final_value,
     total_return   |-> Round2(RMul(RSub(RDiv(final_value, R(INITIAL_CAPITAL)), R(1)), R(100))),
     dividend_total |-> Round2(s.dividend_total),
     trade_count    |-> Len(SelectSeq(s.trades, LAMBDA t : t.action = Buy)),
     final_position |-> IF s.position = 1 THEN "long" ELSE "flat"]

\* final_value = cash + shares * df.iloc[-1]['close']
TradingValue(s) == RAdd(s.cash, RMul(s.shares, R(close[Len(close)])))

\* run_backtest_no_reinvest, "最终价值 = 交易账户 + 分红账户"
NoReinvestResult(s) ==
    LET r == DivTestResult(s, RAdd(TradingValue(s), s.dividend_cash))
    IN  [final_value    |-> r.final_value,
         total_return   |-> r.total_return,
         dividend_total |-> r.dividend_total,
         trade_count    |-> r.trade_count,
         final_position |-> r.final_position,
         dividend_cash  |-> Round2(s.dividend_cash),
         trading_value  |-> Round2(TradingValue(s))]

\* the return of run_backtest_reinvest_immediate, after the last row
ReturnReinvestImmediate ==
    /\ variant = "immediate"
    /\ i = Len(close)
    /\ result = None
    /\ result' = DivTestResult(State, TradingValue(State))
    /\ UNCHANGED <<variant, period, buy_threshold, sell_threshold, close, rsi, dividend_dict,
                   i, cash, shares, position, trades, daily_values, dividend_total,
                   dividend_cash>>
    /\ UNCHANGED <<sweep_vars, previous>>

\* the return of run_backtest_reinvest_on_signal
ReturnReinvestOnSignal ==
    /\ variant = "on_signal"
    /\ i = Len(close)
    /\ result = None
    /\ result' = DivTestResult(State, TradingValue(State))
    /\ UNCHANGED <<variant, period, buy_threshold, sell_threshold, close, rsi, dividend_dict,
                   i, cash, shares, position, trades, daily_values, dividend_total,
                   dividend_cash>>
    /\ UNCHANGED <<sweep_vars, previous>>

\* the return of run_backtest_no_reinvest
ReturnNoReinvest ==
    /\ variant = "no_reinvest"
    /\ i = Len(close)
    /\ result = None
    /\ result' = NoReinvestResult(State)
    /\ UNCHANGED <<variant, period, buy_threshold, sell_threshold, close, rsi, dividend_dict,
                   i, cash, shares, position, trades, daily_values, dividend_total,
                   dividend_cash>>
    /\ UNCHANGED <<sweep_vars, previous>>

\* the largest of a non-empty set of values
RMax(S) == CHOOSE x \in S : \A y \in S : RGe(x, y)

\* round(((1 + total_return / 100) ** (365 / days) - 1) * 100, 2), days not
\* 0.  With days = 365 the exponent is 1.0 and the power is
\* its base; any other power is not a rational: the value is kept as the
\* term Power(base, exponent).
Power(base, exponent) == <<"power", base, exponent>>
Annualised(total_return, days) ==
    IF days = 365 THEN Round2(total_return)
    ELSE Power(RAdd(R(1), RDiv(total_return, R(100))), RDiv(R(365), R(days)))

\* an annualisation that evaluates the power whatever the day count
AnnualReturn_Unguarded(total_return, calendar_days) ==
    IF calendar_days = 0 THEN NaN ELSE Annualised(total_return, calendar_days)

\* annual_return = (...) if calendar_days > 0 else 0
AnnualReturn(total_return, calendar_days) ==
    IF calendar_days > 0 THEN Annualised(total_return, calendar_days) ELSE R(0)

\* rsi_backtest.calculate_annual_return(total_return_pct, calendar_days)
calculate_annual_return(total_return_pct, calendar_days) ==
    IF calendar_days <= 0 \/ total_return_pct = None THEN None
    ELSE Annualised(total_return_pct, calendar_days)

\* the peak of the whole list, the later values included
RunningPeak_WholeList(values, k) == RMax({values[j] : j \in 1..Len(values)})

\* peak = values[0]; for v in values: if v > peak: peak = v.  The peak at
\* entry k is the largest of the values up to it.
RunningPeak(values, k) == RMax({values[j] : j \in 1..k})

\* max_drawdown = 0; ...; drawdown = (peak - v) / peak * 100; if drawdown >
\* max_drawdown: max_drawdown = drawdown
MaxDrawdown(values) ==
    RMax({R(0)} \cup
         {RMul(RDiv(RSub(RunningPeak(values, k), values[k]), RunningPeak(values, k)), R(100)) :
            k \in 1..Len(values)})

\* a pair that counts as a win when the prices are equal
PairWins_OrEqual(sell, buy) == RGe(sell.price, buy.price)

\* sell['price'] > buy_trades[i]['price']
PairWins(sell, buy) == RGt(sell.price, buy.price)

\* the win loop over enumerate(sell_trades), and
\* win_rate = wins / len(sell_trades) * 100 if sell_trades else 0
WinRate(tr) ==
    LET buy_trades  == SelectSeq(tr, LAMBDA t : t.action = Buy)
        sell_trades == SelectSeq(tr, LAMBDA t : t.action = Sell)
        wins        == Cardinality({k \in 1..Len(sell_trades) :
                          /\ k <= Len(buy_trades)
                          /\ PairWins(sell_trades[k], buy_trades[k])})
    IN  IF Len(sell_trades) > 0
        THEN RMul(RDiv(R(wins), R(Len(sell_trades))), R(100)) ELSE R(0)

\* rsi_backtest.calculate_statistics(daily_values, trades), daily_values not
\* empty
calculate_statistics(dv, tr) ==
    LET n             == Len(dv)
        values        == [k \in 1..n |-> dv[k].total_value]
        total_return  == dv[n].return
        calendar_days == dv[n].date - dv[1].date
    IN  [total_return  |-> Round2(total_return),
         annual_return |-> AnnualReturn(total_return, calendar_days),
         max_drawdown  |-> Round2(MaxDrawdown(values)),
         trade_count   |-> Len(SelectSeq(tr, LAMBDA t : t.action = Buy)),
         win_rate      |-> Round2(WinRate(tr)),
         start_date    |-> dv[1].date,
         end_date      |-> dv[n].date,
         days          |-> n,
         calendar_days |-> calendar_days]

\* generate_66_81_data.calculate_statistics(daily_values, trades),
\* daily_values not empty: days = len(daily_values) is what it annualises with
Generate6681CalculateStatistics(dv, tr) ==
    LET days         == Len(dv)
        values       == [k \in 1..days |-> dv[k].total_value]
        total_return == dv[days].return
    IN  [total_return  |-> Round2(total_return),
         annual_return |-> AnnualReturn(total_return, days),
         max_drawdown  |-> Round2(MaxDrawdown(values)),
         trade_count   |-> Len(SelectSeq(tr, LAMBDA t : t.action = Buy)),
         win_rate      |-> Round2(WinRate(tr)),
         start_date    |-> dv[1].date,
         end_date      |-> dv[days].date,
         days          |-> days]

\* a second run that appends to the trades of the first
RunBacktestStart_KeepsTrades(s) ==
    [s EXCEPT !.cash = R(INITIAL_CAPITAL), !.shares = R(0), !.position = 0,
              !.daily_values = <<>>]

\* rsi_backtest.run_backtest, before its loop: cash = initial_capital,
\* shares = 0, position = 0, trades = [], daily_values = [], whatever an
\* earlier call left (s)
RunBacktestStart(s) ==
    [s EXCEPT !.cash = R(INITIAL_CAPITAL), !.shares = R(0), !.position = 0,
              !.trades = <<>>, !.daily_values = <<>>]

\* rsi_backtest: strategy_stats = calculate_statistics(strategy_values, trades)
CalculateStatistics ==
    /\ variant = "lot"
    /\ i = Len(close)
    /\ result = None
    /\ result' = calculate_statistics(daily_values, trades)
    /\ UNCHANGED <<variant, period, buy_threshold, sell_threshold, close, rsi, dividend_dict,
                   i, cash, shares, position, trades, daily_values, dividend_total,
                   dividend_cash>>
    /\ UNCHANGED <<sweep_vars, previous>>

\* run_backtest is called once more on the same frame: the outputs of the
\* first run are kept aside, the RSI column is computed on a new copy of the
\* frame and the loop starts over
RunBacktestAgain ==
    /\ variant = "lot"
    /\ result # None
    /\ previous = None
    /\ previous' = [trades |-> trades, daily_values |-> daily_values, statistics |-> result]
    /\ rsi' = calculate_rsi(close, period)
    /\ LET s == RunBacktestStart(State)
       IN  /\ cash' = s.cash
           /\ shares' = s.shares
           /\ position' = s.position
           /\ trades' = s.trades
           /\ daily_values' = s.daily_values
    /\ i' = 0
    /\ result' = None
    /\ UNCHANGED <<variant, period, buy_threshold, sell_threshold, close, dividend_dict,
                   dividend_total, dividend_cash>>
    /\ UNCHANGED sweep_vars

Next ==
    \/ RunBacktest
    \/ RunBacktestDividend
    \/ RunBacktestIdeal
    \/ RunBacktestReinvestImmediate
    \/ RunBacktestReinvestOnSignal
    \/ RunBacktestNoReinvest
    \/ ReturnReinvestImmediate
    \/ ReturnReinvestOnSignal
    \/ ReturnNoReinvest
    \/ CalculateStatistics

Spec == Init /\ [][Next]_vars

(***************************************************************************)
(* rsi_backtest run twice on one frame: run_backtest and                   *)
(* calculate_statistics, then both once more.                              *)
(***************************************************************************)

RerunInit ==
    /\ Init
    /\ variant = "lot"

RerunNext ==
    \/ RunBacktest
    \/ CalculateStatistics
    \/ RunBacktestAgain

RerunSpec == RerunInit /\ [][RerunNext]_vars

(***************************************************************************)
(* The indicator calculators on their own: one call of a calculator on a   *)
(* price column, for periods from 1 to beyond the length of the column.    *)
(***************************************************************************)
Calculators == {"calculate_rsi", "calculate_rsi_ema", "rsi_full_optimization.calculate_rsi"}

IndicatorPriceSeries == UNION {[1..n -> IndicatorPrices] : n \in 1..MaxDays}

\* no RSI column yet
NotComputed == <<>>

IndicatorInit ==
    /\ variant \in Calculators
    /\ period \in IndicatorPeriods
    /\ close \in IndicatorPriceSeries
    /\ rsi = NotComputed
    /\ buy_threshold = RSI_BUY_THRESHOLD
    /\ sell_threshold = RSI_SELL_THRESHOLD
    /\ dividend_dict = [d \in {} |-> DividendPerShare]
    /\ i = 0
    /\ cash = R(INITIAL_CAPITAL)
    /\ shares = R(0)
    /\ position = 0
    /\ trades = <<>>
    /\ daily_values = <<>>
    /\ dividend_total = R(0)
    /\ dividend_cash = R(0)
    /\ result = None
    /\ entry = "none"
    /\ combinations = <<>>
    /\ results = <<>>
    /\ locals = None
    /\ previous = None
    /\ report = None

\* df['rsi'] = calculate_rsi(df['close'], period)
CalculateRsi ==
    /\ variant = "calculate_rsi"
    /\ rsi = NotComputed
    /\ rsi' = calculate_rsi(close, period)
    /\ UNCHANGED <<variant, period, buy_threshold, sell_threshold, close, dividend_dict,
                   i, cash, shares, position, trades, daily_values, dividend_total,
                   dividend_cash, result>>
    /\ UNCHANGED <<sweep_vars, previous>>

\* df['rsi'] = calculate_rsi_ema(df['close'], rsi_period)
CalculateRsiEma ==
    /\ variant = "calculate_rsi_ema"
    /\ rsi = NotComputed
    /\ rsi' = calculate_rsi_ema(close, period)
    /\ UNCHANGED <<variant, period, buy_threshold, sell_threshold, close, dividend_dict,
                   i, cash, shares, position, trades, daily_values, dividend_total,
                   dividend_cash, result>>
    /\ UNCHANGED <<sweep_vars, previous>>

\* rsi_full_optimization: df['rsi'] = calculate_rsi(df['close'], rsi_period)
CalculateRsiFullOpt ==
    /\ variant = "rsi_full_optimization.calculate_rsi"
    /\ rsi = NotComputed
    /\ rsi' = FullOptCalculateRsi(close, period)
    /\ UNCHANGED <<variant, period, buy_threshold, sell_threshold, close, dividend_dict,
                   i, cash, shares, position, trades, daily_values, dividend_total,
                   dividend_cash, result>>
    /\ UNCHANGED <<sweep_vars, previous>>

IndicatorNext ==
    \/ CalculateRsi
    \/ CalculateRsiEma
    \/ CalculateRsiFullOpt

IndicatorSpec == IndicatorInit /\ [][IndicatorNext]_vars

(***************************************************************************)
(* rsi_full_optimization: run_backtest, test_single_combination and the    *)
(* sweep of main.  A call of run_backtest is a sequence of steps: the      *)
(* entry (arguments, RSI column, fresh locals), one step per row of the    *)
(* first loop, the start of the second loop, one step per row of the       *)
(* second loop, and the return.                                            *)
(***************************************************************************)
\* the locals run_backtest creates before its first loop
FullOptInitial ==
    [cash |-> R(INITIAL_CAPITAL), shares |-> R(0), position |-> 0,
     trade_count |-> 0, wins |-> 0, buy_price |-> R(0),
     peak |-> R(INITIAL_CAPITAL), max_drawdown |-> R(0)]

\* a run that goes on from the cash, shares and position the previous run
\* ended with
FullOptStart_KeepsLocals(last) ==
    [FullOptInitial EXCEPT !.cash = last.cash, !.shares = last.shares,
                           !.position = last.position]

\* cash = INITIAL_CAPITAL; shares = 0; position = 0; ...: whatever an earlier
\* call left (last), a call starts from fresh locals
FullOptStart(last) == FullOptInitial

\* the signal check of one row, in the first loop (cash, shares, position,
\* trade_count, wins, buy_price) and again in the second (running_cash,
\* running_shares, running_position, which count nothing)
FullOptTradeRow(o, price, r, buy_th, sell_th) ==
    LET branch == Signal(r, o.position, buy_th, sell_th)
    IN  IF branch = "buy" THEN
            LET q == shares_to_buy(o.cash, price)
            IN  IF RGt(q, R(0)) THEN
                    [o EXCEPT !.cash = RSub(o.cash, RMul(q, price)),
                              !.shares = RAdd(o.shares, q),
                              !.position = 1,
                              !.buy_price = price]
                ELSE o
        ELSE IF branch = "sell" /\ RGt(o.shares, R(0)) THEN
            LET q    == sell_shares(o.shares)
                rest == SellRemainder(RAdd(o.cash, RMul(q, price)), RSub(o.shares, q), price)
            IN  IF RGt(q, R(0)) THEN
                    [o EXCEPT !.cash = rest.cash,
                              !.shares = rest.shares,
                              !.position = 0,
                              !.trade_count = o.trade_count + 1,
                              !.wins = IF RGt(price, o.buy_price) THEN o.wins + 1 ELSE o.wins]
                ELSE o
        ELSE o

\* shares_to_buy = int(cash / price / 100) * 100 raises on a buy signal at a
\* close of 0: ZeroDivisionError with Python numbers; with numpy numbers the
\* quotient is inf or nan and int() raises OverflowError or ValueError
FullOptRaises(o, price, r, buy_th, sell_th) ==
    /\ Signal(r, o.position, buy_th, sell_th) = "buy"
    /\ price = R(0)

\* "计算最大回撤": the peak and the drawdown of one row, after its trading
FullOptDrawdownRow(o, price) ==
    LET current_value == RAdd(o.cash, RMul(o.shares, price))
        peak          == IF RGt(current_value, o.peak) THEN current_value ELSE o.peak
        drawdown      == RMul(RDiv(RSub(peak, current_value), peak), R(100))
    IN  [o EXCEPT !.peak = peak,
                  !.max_drawdown = IF RGt(drawdown, o.max_drawdown) THEN drawdown
                                   ELSE o.max_drawdown]

\* the first loop over rows 1..k
RECURSIVE FullOptFirstLoop(_, _, _, _, _, _)
FullOptFirstLoop(start, prices, column, buy_th, sell_th, k) ==
    IF k = 0 THEN start
    ELSE FullOptTradeRow(FullOptFirstLoop(start, prices, column, buy_th, sell_th, k - 1),
                         R(prices[k]), column[k], buy_th, sell_th)

\* the second loop over rows 1..k: it always starts from INITIAL_CAPITAL
RECURSIVE FullOptSecondLoop(_, _, _, _, _)
FullOptSecondLoop(prices, column, buy_th, sell_th, k) ==
    IF k = 0 THEN FullOptInitial
    ELSE FullOptDrawdownRow(
             FullOptTradeRow(FullOptSecondLoop(prices, column, buy_th, sell_th, k - 1),
                             R(prices[k]), column[k], buy_th, sell_th),
             R(prices[k]))

\* what run_backtest returns, from the locals o of the first loop and the
\* locals running of the second
FullOptReturned(o, running, prices, rsi_period, buy_th, sell_th) ==
    LET final_value  == RAdd(o.cash, RMul(o.shares, R(prices[Len(prices)])))
        total_return == RMul(RSub(RDiv(final_value, R(INITIAL_CAPITAL)), R(1)), R(100))
        win_rate     == IF o.trade_count > 0
                        THEN RMul(RDiv(R(o.wins), R(o.trade_count)), R(100)) ELSE R(0)
    IN  [rsi_period     |-> rsi_period,
         buy_threshold  |-> buy_th,
         sell_threshold |-> sell_th,
         total_return   |-> Round2(total_return),
         max_drawdown   |-> Round2(running.max_drawdown),
         trade_count    |-> o.trade_count,
         win_rate       |-> Round2(win_rate),
         final_position |-> IF o.position = 1 THEN "long" ELSE "flat"]

\* rsi_full_optimization.run_backtest(df, rsi_period, buy_threshold,
\* sell_threshold) as one function of its arguments: what a call returns
FullOptRunBacktest(prices, rsi_period, buy_th, sell_th) ==
    LET column == FullOptCalculateRsi(prices, rsi_period)
    IN  FullOptReturned(
            FullOptFirstLoop(FullOptInitial, prices, column, buy_th, sell_th, Len(prices)),
            FullOptSecondLoop(prices, column, buy_th, sell_th, Len(prices)),
            prices, rsi_period, buy_th, sell_th)

\* every (period, buy, sell) of the ranges, in the order of main's loops
AllCombinations ==
    LET P == Len(SweepPeriods)
        B == Len(SweepBuyThresholds)
        S == Len(SweepSellThresholds)
    IN  [n \in 1..(P * B * S) |->
            <<SweepPeriods[((n - 1) \div (B * S)) + 1],
              SweepBuyThresholds[(((n - 1) \div S) % B) + 1],
              SweepSellThresholds[((n - 1) % S) + 1]>>]

\* main, "生成所有参数组合": if buy_th < sell_th: combinations.append(...)
BuyBelowSell(c) == c[2] < c[3]
MainCombinations == SelectSeq(AllCombinations, BuyBelowSell)

EntryPoints == {"run_backtest", "test_single_combination", "main"}

\* the frames of the sweep: the first close is positive (buyhold_return
\* divides by it)
SweepPriceSeries ==
    {c \in UNION {[1..n -> SweepPrices] : n \in 1..MaxDays} : c[1] > 0}

\* no call of run_backtest has been made
Idle == [phase |-> "idle", row |-> 0, o |-> FullOptInitial, running |-> FullOptInitial]

SweepInit ==
    /\ entry \in EntryPoints
    /\ close \in SweepPriceSeries
    \* main divides by calendar_days before the sweep: the frame has two dates
    /\ entry = "main" => Len(close) >= 2
    /\ combinations \in IF entry = "main" THEN {MainCombinations}
                        ELSE {<<AllCombinations[n]>> : n \in DOMAIN AllCombinations}
    /\ results = <<>>
    /\ locals = Idle
    /\ previous = None
    /\ report = None
    /\ variant = "rsi_full_optimization"
    /\ period = None
    /\ buy_threshold = None
    /\ sell_threshold = None
    /\ rsi = NotComputed
    /\ dividend_dict = [d \in {} |-> DividendPerShare]
    /\ i = 0
    /\ cash = R(INITIAL_CAPITAL)
    /\ shares = R(0)
    /\ position = 0
    /\ trades = <<>>
    /\ daily_values = <<>>
    /\ dividend_total = R(0)
    /\ dividend_cash = R(0)
    /\ result = None

\* the variables of the other simulators, and main's report
backtest_vars == <<variant, dividend_dict, i, cash, shares, position, trades, daily_values,
                   dividend_total, dividend_cash, result, previous, report>>

\* run_backtest(df, c[1], c[2], c[3]) is entered: df = df.copy(), the RSI
\* column of the copy, the locals of the first loop
EnterRunBacktest(c) ==
    /\ period' = c[1]
    /\ buy_threshold' = c[2]
    /\ sell_threshold' = c[3]
    /\ rsi' = FullOptCalculateRsi(close, c[1])
    /\ locals' = [phase |-> "first_loop", row |-> 0, o |-> FullOptStart(locals.o),
                  running |-> locals.running]
    /\ UNCHANGED <<close, entry, combinations, results>>
    /\ UNCHANGED backtest_vars

\* run_backtest called by itself
RunBacktestDirect ==
    /\ entry = "run_backtest"
    /\ locals.phase = "idle"
    /\ EnterRunBacktest(combinations[1])

\* test_single_combination((df, rsi_period, buy_threshold, sell_threshold))
TestSingleCombination ==
    /\ entry = "test_single_combination"
    /\ locals.phase = "idle"
    /\ results = <<>>
    /\ IF combinations[1][2] >= combinations[1][3]
       THEN /\ results' = <<None>>
            /\ UNCHANGED <<period, buy_threshold, sell_threshold, close, rsi, entry,
                           combinations, locals>>
            /\ UNCHANGED backtest_vars
       ELSE EnterRunBacktest(combinations[1])

\* main, "运行所有测试": the loop over combinations calls run_backtest
MainSweepStep ==
    /\ entry = "main"
    /\ locals.phase \in {"idle", "returned"}
    /\ Len(results) < Len(combinations)
    /\ EnterRunBacktest(combinations[Len(results) + 1])

\* one iteration of run_backtest's first loop.  An exception of the row
\* leaves run_backtest; no caller catches it (main has no try around the
\* call), so the program ends there: no step follows phase "raised"
FullOptFirstLoopRow ==
    /\ locals.phase = "first_loop"
    /\ locals.row < Len(close)
    /\ locals' = IF FullOptRaises(locals.o, R(close[locals.row + 1]), rsi[locals.row + 1],
                                  buy_threshold, sell_threshold)
                 THEN [locals EXCEPT !.phase = "raised"]
                 ELSE [locals EXCEPT
                         !.o = FullOptTradeRow(locals.o, R(close[locals.row + 1]),
                                               rsi[locals.row + 1], buy_threshold,
                                               sell_threshold),
                         !.row = locals.row + 1]
    /\ UNCHANGED <<period, buy_threshold, sell_threshold, close, rsi, entry, combinations,
                   results>>
    /\ UNCHANGED backtest_vars

\* "计算最大回撤": peak = INITIAL_CAPITAL, max_drawdown = 0, running_cash =
\* INITIAL_CAPITAL, running_shares = 0, running_position = 0
FullOptStartSecondLoop ==
    /\ locals.phase = "first_loop"
    /\ locals.row = Len(close)
    /\ locals' = [locals EXCEPT !.phase = "second_loop", !.row = 0,
                                !.running = FullOptInitial]
    /\ UNCHANGED <<period, buy_threshold, sell_threshold, close, rsi, entry, combinations,
                   results>>
    /\ UNCHANGED backtest_vars

\* one iteration of run_backtest's second loop
FullOptSecondLoopRow ==
    /\ locals.phase = "second_loop"
    /\ locals.row < Len(close)
    /\ locals' = IF FullOptRaises(locals.running, R(close[locals.row + 1]),
                                  rsi[locals.row + 1], buy_threshold, sell_threshold)
                 THEN [locals EXCEPT !.phase = "raised"]
                 ELSE [locals EXCEPT
                         !.running = FullOptDrawdownRow(
                             FullOptTradeRow(locals.running, R(close[locals.row + 1]),
                                             rsi[locals.row + 1], buy_threshold,
                                             sell_threshold),
                             R(close[locals.row + 1])),
                         !.row = locals.row + 1]
    /\ UNCHANGED <<period, buy_threshold, sell_threshold, close, rsi, entry, combinations,
                   results>>
    /\ UNCHANGED backtest_vars

\* run_backtest returns; the caller keeps what it returned
FullOptReturn ==
    /\ locals.phase = "second_loop"
    /\ locals.row = Len(close)
    /\ results' = Append(results, FullOptReturned(locals.o, locals.running, close, period,
                                                  buy_threshold, sell_threshold))
    /\ locals' = [locals EXCEPT !.phase = "returned"]
    /\ UNCHANGED <<period, buy_threshold, sell_threshold, close, rsi, entry, combinations>>
    /\ UNCHANGED backtest_vars

\* buyhold_return = (df.iloc[-1]['close'] / df.iloc[0]['close'] - 1) * 100
BuyholdReturn(prices) ==
    RMul(RSub(RDiv(R(prices[Len(prices)]), R(prices[1])), R(1)), R(100))

\* a ranking by non-decreasing total_return
SortedPosition_Ascending(res, k) ==
    1 + Cardinality({j \in 1..Len(res) : RLt(res[j].total_return, res[k].total_return)})
      + Cardinality({j \in 1..(k - 1) : res[j].total_return = res[k].total_return})

\* a ranking that reverses the entries with the same total_return
SortedPosition_TiesReversed(res, k) ==
    1 + Cardinality({j \in 1..Len(res) : RGt(res[j].total_return, res[k].total_return)})
      + Cardinality({j \in (k + 1)..Len(res) : res[j].total_return = res[k].total_return})

\* where sorted(res, key=lambda x: x['total_return'], reverse=True) puts
\* res[k]: after every entry with a greater total_return and, the sort being
\* stable, after the earlier entries with the same total_return
SortedPosition(res, k) ==
    1 + Cardinality({j \in 1..Len(res) : RGt(res[j].total_return, res[k].total_return)})
      + Cardinality({j \in 1..(k - 1) : res[j].total_return = res[k].total_return})

\* sorted(res, key=lambda x: x['total_return'], reverse=True)
SortedByTotalReturn(res) ==
    [n \in 1..Len(res) |-> res[CHOOSE k \in 1..Len(res) : SortedPosition(res, k) = n]]

\* a baseline test that counts a tie
BeatsBuyhold_OrTies(r, buyhold_return) == RGe(r.total_return, buyhold_return)

\* r['total_return'] > buyhold_return
BeatsBuyhold(r, buyhold_return) == RGt(r.total_return, buyhold_return)

\* [r for r in results_sorted if r['rsi_period'] == period][0]
BestForPeriod(results_sorted, p) ==
    SelectSeq(results_sorted, LAMBDA r : r.rsi_period = p)[1]

\* main after the sweep: results_sorted, beating_buyhold, the fraction it
\* prints, best = results_sorted[0] and the best of every period
MainReport ==
    /\ entry = "main"
    /\ locals.phase = "returned"
    /\ Len(results) = Len(combinations)
    /\ report = None
    /\ LET buyhold_return     == BuyholdReturn(close)
           results_sorted     == SortedByTotalReturn(results)
           beating_buyhold    == SelectSeq(results_sorted,
                                           LAMBDA r : BeatsBuyhold(r, buyhold_return))
           total_combinations == Len(combinations)
       IN  report' = [buyhold_return     |-> buyhold_return,
                      results_sorted     |-> results_sorted,
                      beating_buyhold    |-> beating_buyhold,
                      total_combinations |-> total_combinations,
                      beating_percent    |-> RMul(RDiv(R(Len(beating_buyhold)),
                                                       R(total_combinations)), R(100)),
                      best               |-> results_sorted[1],
                      top_by_period      |-> [n \in 1..Len(SweepPeriods) |->
                                                BestForPeriod(results_sorted, SweepPeriods[n])]]
    /\ UNCHANGED <<variant, period, buy_threshold, sell_threshold, close, rsi, dividend_dict,
                   i, cash, shares, position, trades, daily_values, dividend_total,
                   dividend_cash, result, entry, combinations, results, locals, previous>>

SweepNext ==
    \/ RunBacktestDirect
    \/ TestSingleCombination
    \/ MainSweepStep
    \/ FullOptFirstLoopRow
    \/ FullOptStartSecondLoop
    \/ FullOptSecondLoopRow
    \/ FullOptReturn
    \/ MainReport

SweepSpec == SweepInit /\ [][SweepNext]_vars

(***************************************************************************)
(* The statistics functions alone, on lists of daily values and of trades. *)
(***************************************************************************)
StatisticsFunctions ==
    {"rsi_backtest.calculate_statistics", "generate_66_81_data.calculate_statistics",
     "rsi_backtest.calculate_annual_return"}

\* a daily value as run_backtest and the benchmark functions write it, with
\* the fields the statistics read
StatDailyValue(date, value) ==
    [date |-> date, total_value |-> R(value),
     return |-> RMul(RSub(RDiv(R(value), R(INITIAL_CAPITAL)), R(1)), R(100))]

\* lists of daily values, one per date, in date order
StatDailyValueLists ==
    {dv \in UNION {[1..n -> {StatDailyValue(d, v) : d \in StatDates, v \in StatValues}] :
                     n \in 1..Cardinality(StatDates)} :
        \A k \in 1..(Len(dv) - 1) : dv[k].date < dv[k + 1].date}

\* trade lists, with the fields the statistics read
StatTradeLists ==
    UNION {[1..n -> [action : {Buy, Sell, DividendReinvest}, price : {R(q) : q \in StatPrices}]] :
             n \in 0..MaxStatTrades}

\* the arguments of calculate_annual_return
StatAnnualArguments ==
    [total_return_pct : {None, R(100), R(-20)}, calendar_days : {-1, 0, 2, 365}]

StatisticsInit ==
    /\ variant \in StatisticsFunctions
    /\ IF variant = "rsi_backtest.calculate_annual_return"
       THEN /\ locals \in StatAnnualArguments
            /\ daily_values = <<>>
            /\ trades = <<>>
       ELSE /\ locals = None
            /\ daily_values \in StatDailyValueLists
            /\ trades \in StatTradeLists
    /\ result = [returned |-> FALSE]
    /\ entry = "none"
    /\ combinations = <<>>
    /\ results = <<>>
    /\ previous = None
    /\ report = None
    /\ period = None
    /\ buy_threshold = None
    /\ sell_threshold = None
    /\ close = <<>>
    /\ rsi = NotComputed
    /\ dividend_dict = [d \in {} |-> DividendPerShare]
    /\ i = 0
    /\ cash = R(INITIAL_CAPITAL)
    /\ shares = R(0)
    /\ position = 0
    /\ dividend_total = R(0)
    /\ dividend_cash = R(0)

\* what a statistics function leaves alone: its arguments and the rest
statistics_frame == <<variant, period, buy_threshold, sell_threshold, close, rsi,
                      dividend_dict, i, cash, shares, position, trades, daily_values,
                      dividend_total, dividend_cash, entry, combinations, results, locals,
                      previous, report>>

\* rsi_backtest: calculate_statistics(daily_values, trades)
ApplyCalculateStatistics ==
    /\ variant = "rsi_backtest.calculate_statistics"
    /\ ~result.returned
    /\ result' = [returned |-> TRUE, value |-> calculate_statistics(daily_values, trades)]
    /\ UNCHANGED statistics_frame

\* generate_66_81_data: calculate_statistics(daily_values, trades)
ApplyGenerate6681CalculateStatistics ==
    /\ variant = "generate_66_81_data.calculate_statistics"
    /\ ~result.returned
    /\ result' = [returned |-> TRUE,
                  value    |-> Generate6681CalculateStatistics(daily_values, trades)]
    /\ UNCHANGED statistics_frame

\* rsi_backtest: calculate_annual_return(total_return_pct, calendar_days)
ApplyCalculateAnnualReturn ==
    /\ variant = "rsi_backtest.calculate_annual_return"
    /\ ~result.returned
    /\ result' = [returned |-> TRUE,
                  value    |-> calculate_annual_return(locals.total_return_pct,
                                                       locals.calendar_days)]
    /\ UNCHANGED statistics_frame

StatisticsNext ==
    \/ ApplyCalculateStatistics
    \/ ApplyGenerate6681CalculateStatistics
    \/ ApplyCalculateAnnualReturn

StatisticsSpec == StatisticsInit /\ [][StatisticsNext]_vars

(***************************************************************************)
(* rsi_backtest.calculate_benchmark_return(df, initial_capital,            *)
(* reference_dates): a call is the entry (the emptiness test, the date to  *)
(* price map, the choice of the loop), one step per iteration of the loop  *)
(* taken, and the return.  Dates are day numbers.                          *)
(***************************************************************************)
\* lists of dates in date order, as the dates of a frame are
DateLists ==
    {d \in UNION {[1..n -> 1..MaxDays] : n \in 0..MaxDays} :
        \A k \in 1..(Len(d) - 1) : d[k] < d[k + 1]}

\* the benchmark frames: rows of date and close, possibly none
BenchmarkFrames ==
    UNION {[1..Len(d) -> [date : 1..MaxDays, close : BenchmarkPrices]] \cap
             {f \in [1..Len(d) -> [date : 1..MaxDays, close : BenchmarkPrices]] :
                \A k \in 1..Len(d) : f[k].date = d[k]} : d \in DateLists}

\* date_price_map[date_str] = row['close'], over the rows of df
DatePriceMap(df) ==
    [d \in {df[k].date : k \in 1..Len(df)} |->
        df[CHOOSE k \in 1..Len(df) :
              df[k].date = d /\ \A j \in (k + 1)..Len(df) : df[j].date # d].close]

\* total_value = initial_capital * (price / start_price), and the entry of
\* the date
BenchmarkValue(date_str, price, start_price) ==
    LET total_value == RMul(R(INITIAL_CAPITAL), RDiv(price, start_price))
    IN  [date |-> date_str, total_value |-> total_value,
         return |-> RMul(RSub(RDiv(total_value, R(INITIAL_CAPITAL)), R(1)), R(100))]

\* a basis that is the first close of the benchmark frame
StartPrice_FirstOfFrame(l, price) == R(l.df[1].close)

\* if start_price is None: start_price = price
StartPrice(l, price) == IF l.start_price = None THEN price ELSE l.start_price

\* a missing date that gets no entry
ForwardFill_Dropped(dv, date_str) == dv

\* elif daily_values: the entry of a date the benchmark has no price for
\* repeats the last entry's total_value and return
ForwardFill(dv, date_str) ==
    Append(dv, [date |-> date_str, total_value |-> dv[Len(dv)].total_value,
                return |-> dv[Len(dv)].return])

\* a missing date before the first matched one that gets an entry at the
\* initial capital
MissingDate_NeverSkipped(dv, date_str) ==
    IF Len(dv) > 0 THEN ForwardFill(dv, date_str)
    ELSE <<[date |-> date_str, total_value |-> R(INITIAL_CAPITAL), return |-> R(0)]>>

\* the branches of a date that is not in date_price_map: `elif daily_values`
\* fills, and with no entry yet nothing is appended
MissingDate(dv, date_str) ==
    IF Len(dv) > 0 THEN ForwardFill(dv, date_str) ELSE dv

BenchmarkInit ==
    /\ variant = "calculate_benchmark_return"
    /\ \E df \in BenchmarkFrames, reference_dates \in DateLists :
        locals = [phase |-> "called", df |-> df, reference_dates |-> reference_dates,
                  date_price_map |-> None, start_price |-> None]
    /\ i = 0
    /\ daily_values = <<>>
    /\ result = None
    /\ trades = <<>>
    /\ entry = "none"
    /\ combinations = <<>>
    /\ results = <<>>
    /\ previous = None
    /\ report = None
    /\ period = None
    /\ buy_threshold = None
    /\ sell_threshold = None
    /\ close = <<>>
    /\ rsi = NotComputed
    /\ dividend_dict = [d \in {} |-> DividendPerShare]
    /\ cash = R(INITIAL_CAPITAL)
    /\ shares = R(0)
    /\ position = 0
    /\ dividend_total = R(0)
    /\ dividend_cash = R(0)

\* what calculate_benchmark_return has no access to
benchmark_frame == <<variant, period, buy_threshold, sell_threshold, close, rsi,
                     dividend_dict, cash, shares, position, trades, dividend_total,
                     dividend_cash, entry, combinations, results, previous, report>>

\* if df is None or len(df) == 0: return []; the map; if reference_dates: ...
BenchmarkEnter ==
    /\ locals.phase = "called"
    /\ IF Len(locals.df) = 0
       THEN /\ locals' = [locals EXCEPT !.phase = "returned"]
            /\ result' = <<>>
       ELSE /\ locals' = [locals EXCEPT
                            !.date_price_map = DatePriceMap(locals.df),
                            !.phase = IF Len(locals.reference_dates) > 0 THEN "aligning"
                                      ELSE "original",
                            !.start_price = IF Len(locals.reference_dates) > 0 THEN None
                                            ELSE R(locals.df[1].close)]
            /\ UNCHANGED result
    /\ UNCHANGED <<i, daily_values>>
    /\ UNCHANGED benchmark_frame

\* one iteration of `for date_str in reference_dates`
BenchmarkAlignDate ==
    /\ locals.phase = "aligning"
    /\ i < Len(locals.reference_dates)
    /\ LET date_str == locals.reference_dates[i + 1]
       IN  IF date_str \in DOMAIN locals.date_price_map
           THEN LET price       == R(locals.date_price_map[date_str])
                    start_price == StartPrice(locals, price)
                IN  /\ locals' = [locals EXCEPT !.start_price = start_price]
                    /\ daily_values' = Append(daily_values,
                                              BenchmarkValue(date_str, price, start_price))
           ELSE /\ daily_values' = MissingDate(daily_values, date_str)
                /\ UNCHANGED locals
    /\ i' = i + 1
    /\ UNCHANGED result
    /\ UNCHANGED benchmark_frame

\* "原始逻辑": one iteration of the loop over the rows of df, with start_price
\* = df.iloc[0]['close']
BenchmarkOriginalRow ==
    /\ locals.phase = "original"
    /\ i < Len(locals.df)
    /\ daily_values' = Append(daily_values,
                              BenchmarkValue(locals.df[i + 1].date,
                                             R(locals.df[i + 1].close), locals.start_price))
    /\ i' = i + 1
    /\ UNCHANGED <<locals, result>>
    /\ UNCHANGED benchmark_frame

\* return daily_values
BenchmarkReturn ==
    /\ \/ locals.phase = "aligning" /\ i = Len(locals.reference_dates)
       \/ locals.phase = "original" /\ i = Len(locals.df)
    /\ result' = daily_values
    /\ locals' = [locals EXCEPT !.phase = "returned"]
    /\ UNCHANGED <<i, daily_values>>
    /\ UNCHANGED benchmark_frame

BenchmarkNext ==
    \/ BenchmarkEnter
    \/ BenchmarkAlignDate
    \/ BenchmarkOriginalRow
    \/ BenchmarkReturn

BenchmarkSpec == BenchmarkInit /\ [][BenchmarkNext]_vars

(***************************************************************************)
(* rsi_backtest.run_backtest on a frame with missing closes.  A missing    *)
(* close is NaN; the cash of the run can become NaN (a sell at a NaN       *)
(* price), the share count cannot.  Arithmetic with a NaN operand gives    *)
(* NaN, comparisons with NaN are False, and int(NaN) raises ValueError.    *)
(***************************************************************************)
\* the frames: rows with a close of the simulators' prices, or none
MissingPriceSeries ==
    UNION {[1..n -> {R(price) : price \in Prices} \cup {NaN}] : n \in 1..MaxDays}

FAdd(x, y) == IF IsNaN(x) \/ IsNaN(y) THEN NaN ELSE RAdd(x, y)
FMul(x, y) == IF IsNaN(x) \/ IsNaN(y) THEN NaN ELSE RMul(x, y)

\* delta = prices.diff(): NaN on the first row, on a row without a close and
\* on the row after one
Delta(c, k) ==
    IF k = 1 \/ IsNaN(c[k]) \/ IsNaN(c[k - 1]) THEN NaN ELSE RSub(c[k], c[k - 1])

\* gain = delta.where(delta > 0, 0): NaN > 0 is False, so the gain of a row
\* whose delta is NaN is 0
GainOfCloses(c) ==
    [k \in 1..Len(c) |->
        IF ~IsNaN(Delta(c, k)) /\ RGt(Delta(c, k), R(0)) THEN Delta(c, k) ELSE R(0)]

\* loss = (-delta).where(delta < 0, 0)
LossOfCloses(c) ==
    [k \in 1..Len(c) |->
        IF ~IsNaN(Delta(c, k)) /\ RLt(Delta(c, k), R(0)) THEN RNeg(Delta(c, k)) ELSE R(0)]

\* calculate_rsi(df['close'], RSI_PERIOD) on such a frame
CalculateRsiOfCloses(c, p) ==
    [k \in 1..Len(c) |->
        RsiFromAverages(WilderAvg(GainOfCloses(c), p, k),
                        WilderAvg(LossOfCloses(c), p, k))]

\* shares_to_buy = int(cash / price / 100) * 100 raises on a NaN quotient
MissingPriceRaises(s, row) ==
    /\ Signal(row.rsi, s.position, RSI_BUY_THRESHOLD, RSI_SELL_THRESHOLD) = "buy"
    /\ IsNaN(s.cash) \/ IsNaN(row.close)

\* "卖出信号：全部卖出" with a price or a cash that may be NaN
MissingPriceSell(s, row) ==
    IF RGt(s.shares, R(0)) THEN
        LET q       == sell_shares(s.shares)
            revenue == FMul(q, row.close)
            left    == RSub(s.shares, q)
            cash1   == FAdd(s.cash, revenue)
            cash2   == IF RLt(left, R(LotSize)) THEN FAdd(cash1, FMul(left, row.close))
                       ELSE cash1
            shares2 == IF RLt(left, R(LotSize)) THEN R(0) ELSE left
        IN  IF RGt(q, R(0)) THEN
                [s EXCEPT !.cash = cash2,
                          !.shares = shares2,
                          !.position = 0,
                          !.trades = Append(s.trades,
                              [date |-> row.date, action |-> Sell, price |-> row.close,
                               shares |-> q, amount |-> revenue, rsi |-> row.rsi,
                               total_shares |-> shares2, cash |-> cash2])]
            ELSE s
    ELSE s

\* the signal check of a row that does not raise
MissingPriceSignal(s, row) ==
    LET branch == Signal(row.rsi, s.position, RSI_BUY_THRESHOLD, RSI_SELL_THRESHOLD)
    IN  IF branch = "buy" THEN LotBuy(s, row)
        ELSE IF branch = "sell" THEN MissingPriceSell(s, row)
        ELSE s

\* total_value = cash + shares * price, and the row's daily value
MissingPriceSnapshot(s, row) ==
    LET total_value == FAdd(s.cash, FMul(s.shares, row.close))
    IN  [s EXCEPT !.daily_values = Append(s.daily_values,
            [date |-> row.date, close |-> row.close,
             rsi |-> IF IsNaN(row.rsi) THEN None ELSE row.rsi,
             cash |-> s.cash, shares |-> s.shares, total_value |-> total_value,
             return |-> IF IsNaN(total_value) THEN NaN
                        ELSE RMul(RSub(RDiv(total_value, R(INITIAL_CAPITAL)), R(1)),
                                  R(100))])]

MissingPriceInit ==
    /\ variant = "lot"
    /\ period \in Periods
    /\ buy_threshold = RSI_BUY_THRESHOLD
    /\ sell_threshold = RSI_SELL_THRESHOLD
    /\ close \in MissingPriceSeries
    /\ rsi = CalculateRsiOfCloses(close, period)
    /\ locals = [phase |-> "loop"]
    /\ dividend_dict = [d \in {} |-> DividendPerShare]
    /\ i = 0
    /\ cash = R(INITIAL_CAPITAL)
    /\ shares = R(0)
    /\ position = 0
    /\ trades = <<>>
    /\ daily_values = <<>>
    /\ dividend_total = R(0)
    /\ dividend_cash = R(0)
    /\ result = None
    /\ entry = "none"
    /\ combinations = <<>>
    /\ results = <<>>
    /\ previous = None
    /\ report = None

missing_price_frame == <<variant, period, buy_threshold, sell_threshold, close, rsi,
                         dividend_dict, dividend_total, dividend_cash, entry, combinations,
                         results, previous, report>>

\* one iteration of the loop of run_backtest
MissingPriceRow ==
    /\ locals.phase = "loop"
    /\ i < Len(close)
    /\ LET row == [date |-> i + 1, close |-> close[i + 1], rsi |-> rsi[i + 1]]
       IN  IF MissingPriceRaises(State, row)
           THEN /\ locals' = [phase |-> "raised"]
                /\ UNCHANGED <<i, cash, shares, position, trades, daily_values>>
           ELSE LET s == MissingPriceSnapshot(MissingPriceSignal(State, row), row)
                IN  /\ cash' = s.cash
                    /\ shares' = s.shares
                    /\ position' = s.position
                    /\ trades' = s.trades
                    /\ daily_values' = s.daily_values
                    /\ i' = i + 1
                    /\ UNCHANGED locals
    /\ UNCHANGED result
    /\ UNCHANGED missing_price_frame

\* return trades, daily_values
MissingPriceReturn ==
    /\ locals.phase = "loop"
    /\ i = Len(close)
    /\ result' = <<trades, daily_values>>
    /\ locals' = [phase |-> "returned"]
    /\ UNCHANGED <<i, cash, shares, position, trades, daily_values>>
    /\ UNCHANGED missing_price_frame

MissingPriceNext ==
    \/ MissingPriceRow
    \/ MissingPriceReturn

MissingPriceSpec == MissingPriceInit /\ [][MissingPriceNext]_vars

(***************************************************************************)
(* The optimizer against the standalone simulator: on one frame and one    *)
(* (period, buy, sell), the lot-mode simulator with its parameters as      *)
(* arguments (test_rsi5_40_70.run_backtest, the loop of                    *)
(* rsi_backtest.run_backtest) runs and rsi_backtest.calculate_statistics   *)
(* is applied to what it returned; then rsi_full_optimization.run_backtest *)
(* is called with the same arguments.                                      *)
(***************************************************************************)
\* one iteration of the standalone simulator's loop
StandaloneRow(s, row, buy_th, sell_th) == Snapshot(LotSignal(s, row, buy_th, sell_th), row)

CrossCheckInit ==
    /\ variant = "standalone"
    /\ entry = "run_backtest"
    /\ close \in PriceSeries
    /\ \E p \in Periods, th \in ThresholdPairs :
        /\ period = p
        /\ buy_threshold = th[1]
        /\ sell_threshold = th[2]
        /\ combinations = <<<<p, th[1], th[2]>>>>
    /\ rsi = calculate_rsi(close, period)
    /\ locals = Idle
    /\ results = <<>>
    /\ previous = None
    /\ report = None
    /\ dividend_dict = [d \in {} |-> DividendPerShare]
    /\ i = 0
    /\ cash = R(INITIAL_CAPITAL)
    /\ shares = R(0)
    /\ position = 0
    /\ trades = <<>>
    /\ daily_values = <<>>
    /\ dividend_total = R(0)
    /\ dividend_cash = R(0)
    /\ result = None

\* the loop of the standalone simulator
StandaloneRunBacktest ==
    /\ variant = "standalone"
    /\ i < Len(close)
    /\ Assign(StandaloneRow(State, Row, buy_threshold, sell_threshold))

\* stats = calculate_statistics(daily_values, trades)
StandaloneStatistics ==
    /\ variant = "standalone"
    /\ i = Len(close)
    /\ result = None
    /\ result' = calculate_statistics(daily_values, trades)
    /\ UNCHANGED <<variant, period, buy_threshold, sell_threshold, close, rsi, dividend_dict,
                   i, cash, shares, position, trades, daily_values, dividend_total,
                   dividend_cash>>
    /\ UNCHANGED <<sweep_vars, previous>>

\* rsi_full_optimization.run_backtest(df, period, buy_threshold,
\* sell_threshold) is called on the same frame
CrossCheckRunOptimizer ==
    /\ variant = "standalone"
    /\ result # None
    /\ RunBacktestDirect

CrossCheckNext ==
    \/ StandaloneRunBacktest
    \/ StandaloneStatistics
    \/ CrossCheckRunOptimizer
    \/ FullOptFirstLoopRow
    \/ FullOptStartSecondLoop
    \/ FullOptSecondLoopRow
    \/ FullOptReturn

CrossCheckSpec == CrossCheckInit /\ [][CrossCheckNext]_vars

(***************************************************************************)

(* rsi_weekly_test.run_backtest_weekly(daily_df, weekly_df, dividend_df):  *)
(* the RSI of the weekly frame gives the signals, the loop runs over the   *)
(* rows of the daily frame.  One step of the model is one iteration of     *)
(* that loop.  Dates are the row numbers of the daily frame; the bars of   *)
(* the weekly frame are dated on some of them.                             *)
(***************************************************************************)
\* the closes of the daily frame (the second is above INITIAL_CAPITAL / 100)
\* and of the weekly frame
WeeklyTestDailyPrices == {400, 1500}
WeeklyTestWeeklyPrices == {400, 1500, 4000}
\* the numbers of bars of the weekly frames, and the RSI period of the runs
\* (RSI_PERIOD is 14)
WeeklyBarCounts == {2, 3}
WeeklyTestPeriods == {2}
\* the dividend dates of the runs
WeeklyTestDividendDates == {3}

\* RSI_BUY_THRESHOLD and RSI_SELL_THRESHOLD of rsi_weekly_test
WeeklyBuyThreshold == 40
WeeklySellThreshold == 70

\* the weekly frames: bars in date order
WeeklyFrames ==
    UNION {[1..Len(d) -> [date : 1..MaxDays, close : WeeklyTestWeeklyPrices]] \cap
             {f \in [1..Len(d) -> [date : 1..MaxDays, close : WeeklyTestWeeklyPrices]] :
                \A k \in 1..Len(d) : f[k].date = d[k]} :
           d \in {l \in DateLists : Len(l) \in WeeklyBarCounts}}

\* weekly_signals[date] = rsi, over the bars of weekly_df with pd.notna(rsi)
WeeklySignals(weekly_df, column) ==
    [d \in {weekly_df[k].date : k \in {j \in 1..Len(weekly_df) : ~IsNaN(column[j])}} |->
        column[CHOOSE k \in 1..Len(weekly_df) : weekly_df[k].date = d]]

\* "处理分红": shares += shares * dividend / price on a dividend date, if
\* shares are held
WeeklyDividend(o, date, price, dict) ==
    IF date \in DOMAIN dict /\ RGt(o.shares, R(0))
    THEN [o EXCEPT !.shares = RAdd(o.shares, RDiv(RMul(o.shares, dict[date]), price))]
    ELSE o

\* "更新当周RSI": if date_str in weekly_signals: current_week_rsi = ...
WeeklyUpdateSignal(o, date, weekly_signals) ==
    IF date \in DOMAIN weekly_signals
    THEN [o EXCEPT !.current_week_rsi = weekly_signals[date]] ELSE o

\* a signal that stays after the trade it caused
SignalAfterTrade_Kept(current_week_rsi) == current_week_rsi

\* current_week_rsi = None  # 信号已使用
SignalAfterTrade(current_week_rsi) == None

\* "使用周线RSI信号交易"
WeeklyTrade(o, date, price) ==
    IF o.current_week_rsi = None THEN o
    ELSE IF RLt(o.current_week_rsi, R(WeeklyBuyThreshold)) /\ o.position = 0 THEN
        LET q == shares_to_buy(o.cash, price)
        IN  IF RGt(q, R(0)) THEN
                [o EXCEPT !.cash = RSub(o.cash, RMul(q, price)),
                          !.shares = RAdd(o.shares, q),
                          !.position = 1,
                          !.trades = Append(o.trades,
                              [date |-> date, action |-> Buy, price |-> price,
                               rsi |-> Round2(o.current_week_rsi)]),
                          !.current_week_rsi = SignalAfterTrade(o.current_week_rsi)]
            ELSE o
    ELSE IF RGt(o.current_week_rsi, R(WeeklySellThreshold)) /\ o.position = 1 THEN
        IF RGt(o.shares, R(0)) THEN
            LET q    == sell_shares(o.shares)
                rest == SellRemainder(RAdd(o.cash, RMul(q, price)), RSub(o.shares, q), price)
            IN  IF RGt(q, R(0)) THEN
                    [o EXCEPT !.cash = rest.cash,
                              !.shares = rest.shares,
                              !.position = 0,
                              !.trades = Append(o.trades,
                                  [date |-> date, action |-> Sell, price |-> price,
                                   rsi |-> Round2(o.current_week_rsi)]),
                              !.current_week_rsi = SignalAfterTrade(o.current_week_rsi)]
                ELSE o
        ELSE o
    ELSE o

\* one iteration of the loop over daily_df
WeeklyRow(o, date, price, dict, weekly_signals) ==
    WeeklyTrade(WeeklyUpdateSignal(WeeklyDividend(o, date, price, dict), date,
                                   weekly_signals),
                date, price)

WeeklyInit ==
    /\ variant = "weekly"
    /\ period \in WeeklyTestPeriods
    /\ buy_threshold = WeeklyBuyThreshold
    /\ sell_threshold = WeeklySellThreshold
    /\ close \in [1..MaxDays -> WeeklyTestDailyPrices]
    /\ dividend_dict = [d \in WeeklyTestDividendDates |-> DividendPerShare]
    /\ \E weekly_df \in WeeklyFrames :
        LET column == calculate_rsi([k \in 1..Len(weekly_df) |-> weekly_df[k].close], period)
        IN  /\ rsi = column
            /\ locals = [weekly_df |-> weekly_df,
                         weekly_signals |-> WeeklySignals(weekly_df, column),
                         current_week_rsi |-> None]
    /\ i = 0
    /\ cash = R(INITIAL_CAPITAL)
    /\ shares = R(0)
    /\ position = 0
    /\ trades = <<>>
    /\ daily_values = <<>>
    /\ dividend_total = R(0)
    /\ dividend_cash = R(0)
    /\ result = None
    /\ entry = "none"
    /\ combinations = <<>>
    /\ results = <<>>
    /\ previous = None
    /\ report = None

weekly_frame == <<variant, period, buy_threshold, sell_threshold, close, rsi, dividend_dict,
                  daily_values, dividend_total, dividend_cash, entry, combinations, results,
                  previous, report>>

\* the loop of run_backtest_weekly
RunBacktestWeekly ==
    /\ variant = "weekly"
    /\ i < Len(close)
    /\ result = None
    /\ LET o == WeeklyRow([cash |-> cash, shares |-> shares, position |-> position,
                           trades |-> trades,
                           current_week_rsi |-> locals.current_week_rsi],
                          i + 1, R(close[i + 1]), dividend_dict, locals.weekly_signals)
       IN  /\ cash' = o.cash
           /\ shares' = o.shares
           /\ position' = o.position
           /\ trades' = o.trades
           /\ locals' = [locals EXCEPT !.current_week_rsi = o.current_week_rsi]
    /\ i' = i + 1
    /\ UNCHANGED result
    /\ UNCHANGED weekly_frame

\* final_value, total_return and the returned dictionary
ReturnWeekly ==
    /\ variant = "weekly"
    /\ i = Len(close)
    /\ result = None
    /\ LET final_value == RAdd(cash, RMul(shares, R(close[Len(close)])))
       IN  result' = [final_value    |-> final_value,
                      total_return   |-> Round2(RMul(RSub(RDiv(final_value,
                                                               R(INITIAL_CAPITAL)), R(1)),
                                                     R(100))),
                      trades         |-> trades,
                      trade_count    |-> Len(SelectSeq(trades, LAMBDA t : t.action = Buy)),
                      final_position |-> IF position = 1 THEN "long" ELSE "flat"]
    /\ UNCHANGED <<i, cash, shares, position, trades, locals>>
    /\ UNCHANGED weekly_frame

WeeklyNext ==
    \/ RunBacktestWeekly
    \/ ReturnWeekly

WeeklySpec == WeeklyInit /\ [][WeeklyNext]_vars

(***************************************************************************)

(* github_action_runner: fetch_rsi_and_price and main.  One step of the    *)
(* model is one statement group of main; locals holds main's locals, the   *)
(* calls of send_email and send_wechat made so far and docs/data.json.     *)
(***************************************************************************)
\* the closes of the frames fetch_etf_data returns
RunnerPrices == {400, 1500}
\* the RSI period of the runs (RSI_PERIOD is 15) and the numbers of rows of
\* the frames: one below RSI_PERIOD + 5, RSI_PERIOD + 5 and one above
RunnerPeriods == {2}
RunnerRowCounts == {6, 7, 8}
\* RSI_BUY_THRESHOLD and RSI_SELL_THRESHOLD as the environment sets them:
\* the defaults, buy above sell, both equal, and the ends of the RSI range
RunnerThresholdPairs == {<<32, 77>>, <<77, 32>>, <<50, 50>>, <<0, 100>>}
\* the lists fetch_subscriber_emails returns
RunnerSubscriberLists == {<<>>, <<"a">>, <<"a", "b">>}

\* the last statement of fetch_rsi_and_price's guard:
\* df is None or len(df) < RSI_PERIOD + 5
NotEnoughData(df_is_none, df, p) == df_is_none \/ Len(df) < p + 5

\* fetch_rsi_and_price: (None, None) without enough rows or with a NaN RSI on
\* the last row, else the last row's RSI and close
fetch_rsi_and_price(df_is_none, df, p) ==
    IF NotEnoughData(df_is_none, df, p) THEN [rsi |-> None, price |-> None]
    ELSE LET rsi_value == calculate_rsi_ema(df, p)[Len(df)]
         IN  IF ~IsNaN(rsi_value) THEN [rsi |-> rsi_value, price |-> R(df[Len(df)])]
             ELSE [rsi |-> None, price |-> None]

\* the subject of main: "" unless an alert is due
Subject(rsi_value, buy_th, sell_th) ==
    IF RLt(rsi_value, R(buy_th)) THEN Buy
    ELSE IF RGt(rsi_value, R(sell_th)) THEN Sell
    ELSE ""

\* a label that tests the sell threshold first
SignalLabel_SellFirst(rsi_value, buy_th, sell_th) ==
    IF RGt(rsi_value, R(sell_th)) THEN Sell
    ELSE IF RLt(rsi_value, R(buy_th)) THEN Buy
    ELSE "hold"

\* "计算买卖信号状态": the signal of data.json
SignalLabel(rsi_value, buy_th, sell_th) ==
    IF RLt(rsi_value, R(buy_th)) THEN Buy
    ELSE IF RGt(rsi_value, R(sell_th)) THEN Sell
    ELSE "hold"

RunnerInit ==
    /\ variant = "runner"
    /\ period \in RunnerPeriods
    /\ \E th \in RunnerThresholdPairs :
        /\ buy_threshold = th[1]
        /\ sell_threshold = th[2]
    /\ \E df_is_none \in BOOLEAN, subscribers \in RunnerSubscriberLists :
        /\ close \in IF df_is_none THEN {<<>>}
                     ELSE UNION {[1..n -> RunnerPrices] : n \in RunnerRowCounts}
        /\ locals = [pc |-> "fetch", df_is_none |-> df_is_none,
                     subscribers |-> subscribers, rsi |-> None, price |-> None,
                     subject |-> "", send_email |-> <<>>, send_wechat |-> <<>>,
                     data |-> None]
    /\ rsi = <<>>
    /\ dividend_dict = [d \in {} |-> DividendPerShare]
    /\ i = 0
    /\ cash = R(0)
    /\ shares = R(0)
    /\ position = 0
    /\ trades = <<>>
    /\ daily_values = <<>>
    /\ dividend_total = R(0)
    /\ dividend_cash = R(0)
    /\ result = None
    /\ entry = "none"
    /\ combinations = <<>>
    /\ results = <<>>
    /\ previous = None
    /\ report = None

runner_frame == <<variant, period, buy_threshold, sell_threshold, close, dividend_dict,
                  i, cash, shares, position, trades, daily_values, dividend_total,
                  dividend_cash, result, entry, combinations, results, previous, report>>

\* rsi, price = fetch_rsi_and_price()
MainFetch ==
    /\ variant = "runner"
    /\ locals.pc = "fetch"
    /\ LET r == fetch_rsi_and_price(locals.df_is_none, close, period)
       IN  locals' = [locals EXCEPT !.pc = "fetched", !.rsi = r.rsi, !.price = r.price]
    /\ rsi' = IF NotEnoughData(locals.df_is_none, close, period) THEN rsi
              ELSE calculate_rsi_ema(close, period)
    /\ UNCHANGED runner_frame

\* if rsi is None: return
MainNoRsi ==
    /\ variant = "runner"
    /\ locals.pc = "fetched"
    /\ locals.rsi = None
    /\ locals' = [locals EXCEPT !.pc = "done"]
    /\ UNCHANGED rsi
    /\ UNCHANGED runner_frame

\* the if / elif / else that sets subject and content, and `if subject:` up
\* to subscribers = fetch_subscriber_emails()
MainSubject ==
    /\ variant = "runner"
    /\ locals.pc = "fetched"
    /\ locals.rsi # None
    /\ LET subject == Subject(locals.rsi, buy_threshold, sell_threshold)
       IN  locals' = [locals EXCEPT !.subject = subject,
                                    !.pc = IF subject # "" THEN "notify" ELSE "data"]
    /\ UNCHANGED rsi
    /\ UNCHANGED runner_frame

\* for email in subscribers: send_email(email, subject, content)
MainSendEmail ==
    /\ variant = "runner"
    /\ locals.pc = "notify"
    /\ Len(locals.send_email) < Len(locals.subscribers)
    /\ locals' = [locals EXCEPT !.send_email =
                     Append(@, [to_email |-> locals.subscribers[Len(locals.send_email) + 1],
                                subject |-> locals.subject])]
    /\ UNCHANGED rsi
    /\ UNCHANGED runner_frame

\* send_wechat(subject, content), after the loop
MainSendWechat ==
    /\ variant = "runner"
    /\ locals.pc = "notify"
    /\ Len(locals.send_email) = Len(locals.subscribers)
    /\ locals' = [locals EXCEPT !.send_wechat = Append(@, [title |-> locals.subject]),
                                !.pc = "data"]
    /\ UNCHANGED rsi
    /\ UNCHANGED runner_frame

\* the signal and json.dump(data, f) to docs/data.json
MainWriteData ==
    /\ variant = "runner"
    /\ locals.pc = "data"
    /\ locals' = [locals EXCEPT
                    !.data = [rsi |-> Round2(locals.rsi),
                              buy_threshold |-> buy_threshold,
                              sell_threshold |-> sell_threshold,
                              signal |-> SignalLabel(locals.rsi, buy_threshold,
                                                     sell_threshold)],
                    !.pc = "done"]
    /\ UNCHANGED rsi
    /\ UNCHANGED runner_frame

RunnerNext ==
    \/ MainFetch
    \/ MainNoRsi
    \/ MainSubject
    \/ MainSendEmail
    \/ MainSendWechat
    \/ MainWriteData

RunnerSpec == RunnerInit /\ [][RunnerNext]_vars

(***************************************************************************)

(* Properties.                                                             *)
(***************************************************************************)
IsBuy(t) == t.action = Buy
IsSell(t) == t.action = Sell
IsSignalTrade(t) == t.action \in {Buy, Sell}
IsDividendTrade(t) == t.action = DividendReinvest

\* the trades the step appends
NewTrades == SubSeq(trades', Len(trades) + 1, Len(trades'))
NewSignalTrades == SelectSeq(NewTrades, IsSignalTrade)

\* C1: in every simulator, after each row's processing the position flag is
\* long exactly when shares > 0
C1_PositionIffShares == (position = 1) <=> RGt(shares, R(0))

\* a lot-mode run with reinvested dividends has sold a holding that a
\* dividend had made a non-multiple of the lot, and is flat
C1_Witness ==
    /\ variant = "lotdiv"
    /\ position = 0
    /\ \E k, m \in 1..Len(trades) :
        k < m /\ IsDividendTrade(trades[k]) /\ IsSell(trades[m])
        /\ ~IsInt(RDiv(trades[k].total_shares, R(LotSize)))

\* C2: a row executes at most one of buy and sell; a buy only from flat with
\* RSI < buy threshold, a sell only from long with RSI > sell threshold; the
\* position a buy opens is still open after the row, the position a sell
\* closes is still closed
C2_OneSignalPerDay ==
    [][/\ Len(NewSignalTrades) <= 1
       /\ \A k \in 1..Len(NewSignalTrades) :
            LET t == NewSignalTrades[k]
                r == rsi[i + 1]
            IN  /\ t.date = i + 1
                /\ ~IsNaN(r)
                /\ IsBuy(t) => /\ position = 0 /\ position' = 1
                               /\ RLt(r, R(buy_threshold))
                /\ IsSell(t) => /\ position = 1 /\ position' = 0
                                /\ RGt(r, R(sell_threshold))
       /\ position' # position => Len(NewSignalTrades) = 1]_vars

\* a row whose RSI is below the buy threshold and above the sell threshold
\* has bought, and the run is long after it
C2_Witness ==
    /\ i >= 1
    /\ ~IsNaN(rsi[i])
    /\ RLt(rsi[i], R(buy_threshold)) /\ RGt(rsi[i], R(sell_threshold))
    /\ position = 1
    /\ Len(trades) > 0
    /\ trades[Len(trades)].date = i /\ IsBuy(trades[Len(trades)])

\* C3: in lot mode a buy signal while flat buys the largest multiple q of the
\* lot size with q * price <= cash and pays q * price; when q = 0 the row
\* changes nothing and records no trade
C3_LotBuyQuantity ==
    [][(/\ variant \in LotVariants
        /\ i < Len(close)
        /\ position = 0
        /\ ~IsNaN(rsi[i + 1])
        /\ RLt(rsi[i + 1], R(buy_threshold)))
       => LET price == R(close[i + 1])
              q     == RSub(shares', shares)
          IN  /\ IsInt(q) /\ q[1] >= 0 /\ q[1] % LotSize = 0
              /\ RLe(RMul(q, price), cash)
              /\ RGt(RMul(RAdd(q, R(LotSize)), price), cash)
              /\ cash' = RSub(cash, RMul(q, price))
              /\ q = R(0) => /\ position' = 0 /\ trades' = trades
                             /\ cash' = cash /\ shares' = shares
              /\ q # R(0) => /\ position' = 1
                             /\ Len(NewTrades) = 1
                             /\ IsBuy(NewTrades[1])
                             /\ variant \in {"lot", "lotdiv"} =>
                                  /\ NewTrades[1].shares = q
                                  /\ NewTrades[1].amount = RMul(q, price)]_vars

\* a flat lot-mode run has seen a buy signal on a row whose price no lot
\* could be bought at, and is still flat with its cash
C3_Witness ==
    /\ variant = "lot"
    /\ i >= 1
    /\ ~IsNaN(rsi[i]) /\ RLt(rsi[i], R(buy_threshold))
    /\ position = 0
    /\ \A k \in 1..Len(trades) : trades[k].date # i
    /\ RGt(RMul(R(close[i]), R(LotSize)), cash)
    /\ cash = R(INITIAL_CAPITAL) /\ shares = R(0) /\ trades = <<>>

\* the dividend the row about to be processed pays on the holding
DividendDue == (i + 1) \in DOMAIN dividend_dict /\ RGt(shares, R(0))
DividendDueAmount == RMul(shares, dividend_dict[i + 1])
\* the holding and the cash the signal check of that row starts from
SharesAtSignal ==
    IF variant \in {"lotdiv", "immediate"} /\ DividendDue
    THEN RAdd(shares, RDiv(DividendDueAmount, R(close[i + 1]))) ELSE shares
CashAtSignal ==
    IF variant = "on_signal" /\ DividendDue THEN RAdd(cash, DividendDueAmount) ELSE cash

\* C4: in lot mode an executed sell leaves shares = 0 and raises cash by the
\* whole holding (the holding after the row's dividend) times the price
C4_LotSellLiquidatesAll ==
    [][(/\ variant \in LotVariants
        /\ \E k \in 1..Len(NewTrades) : IsSell(NewTrades[k]))
       => /\ shares' = R(0)
          /\ cash' = RAdd(CashAtSignal, RMul(SharesAtSignal, R(close[i + 1])))]_vars

\* a dividend was reinvested and the holding sold on the same row: the sell
\* record shows whole lots only, the holding was more, and nothing is left
C4_Witness ==
    /\ variant = "lotdiv"
    /\ Len(trades) >= 2
    /\ IsSell(trades[Len(trades)]) /\ trades[Len(trades)].date = i
    /\ IsDividendTrade(trades[Len(trades) - 1]) /\ trades[Len(trades) - 1].date = i
    /\ RGt(trades[Len(trades) - 1].total_shares, trades[Len(trades)].shares)
    /\ shares = R(0)

SnapshotVariants == {"lot", "lotdiv", "ideal"}

\* C6: every daily value has total_value = cash + shares * close; the first
\* is the initial capital; on a row that is no dividend date the total value
\* moves by (shares held after the previous row) * (change of the close),
\* whether or not the row buys or sells
C6_ValueConserved ==
    variant \in SnapshotVariants =>
        \A k \in 1..Len(daily_values) :
            LET d == daily_values[k]
            IN  /\ d.total_value = RAdd(d.cash, RMul(d.shares, d.close))
                /\ k = 1 => d.total_value = R(INITIAL_CAPITAL)
                /\ (k > 1 /\ k \notin DOMAIN dividend_dict) =>
                      RSub(d.total_value, daily_values[k - 1].total_value)
                        = RMul(daily_values[k - 1].shares,
                               RSub(d.close, daily_values[k - 1].close))

\* a lot-mode run has bought and, on the row just processed, sold at another
\* price, so its total value is no longer the initial capital
C6_Witness ==
    /\ variant = "lot"
    /\ Len(trades) >= 2
    /\ IsSell(trades[Len(trades)]) /\ trades[Len(trades)].date = i
    /\ daily_values[i].total_value # R(INITIAL_CAPITAL)
    /\ daily_values[i].cash # daily_values[i - 1].cash

IsLotMultiple(x) == IsInt(x) /\ x[1] % LotSize = 0

\* a sell on the row numbered d
SoldOn(d) == \E k \in 1..Len(trades) : IsSell(trades[k]) /\ trades[k].date = d

\* the lot-mode simulators that keep daily values
LotSnapshotVariants == {"lot", "lotdiv"}

\* C8 as claimed: in lot mode, dividends reinvested included, the shares of
\* every daily value are a whole number of lots, except in the daily value
\* of the row right before a liquidating sell
C8_AlwaysWholeLots ==
    variant \in LotSnapshotVariants =>
        \A k \in 1..Len(daily_values) :
            \/ IsLotMultiple(daily_values[k].shares)
            \/ k = Len(daily_values)
            \/ SoldOn(k + 1)

\* C8, amended: the shares of a daily value are a whole number of lots
\* unless a dividend has been reinvested into the position that is open at
\* that row (the run reinvests dividends, a dividend row at or before this
\* one, no sell from that dividend row up to this one); without dividend
\* reinvestment they always are
C8_WholeLotsUntilDividend ==
    variant \in LotSnapshotVariants =>
        \A k \in 1..Len(daily_values) :
            \/ IsLotMultiple(daily_values[k].shares)
            \/ /\ variant = "lotdiv"
               /\ \E m \in 1..Len(trades) :
                    /\ IsDividendTrade(trades[m])
                    /\ trades[m].date <= k
                    /\ \A d \in trades[m].date..k : ~SoldOn(d)

\* a run that reinvests dividends holds a fractional number of shares over
\* two rows in a row and then sells, and is back to whole lots (none)
C8_Witness ==
    /\ variant = "lotdiv"
    /\ i >= 3
    /\ ~IsLotMultiple(daily_values[i - 2].shares)
    /\ ~IsLotMultiple(daily_values[i - 1].shares)
    /\ SoldOn(i)
    /\ daily_values[i].shares = R(0)

\* the buys and sells of the trade list, in order
SignalTrades == SelectSeq(trades, IsSignalTrade)

\* C9: leaving the dividend records out, the trade list alternates buy, sell,
\* buy, ... starting with a buy; so sells <= buys <= sells + 1, and the run is
\* long exactly when buys = sells + 1
C9_BuysAndSellsAlternate ==
    LET buys  == Len(SelectSeq(trades, IsBuy))
        sells == Len(SelectSeq(trades, IsSell))
    IN  /\ \A k \in 1..Len(SignalTrades) :
            SignalTrades[k].action = IF k % 2 = 1 THEN Buy ELSE Sell
        /\ \A k \in 1..(Len(trades) - 1) : trades[k].date <= trades[k + 1].date
        /\ sells <= buys /\ buys <= sells + 1
        /\ (position = 1) <=> (buys = sells + 1)

\* a run with dividend records between its trades has bought, sold and
\* bought again
C9_Witness ==
    /\ variant = "lotdiv"
    /\ Len(SignalTrades) >= 3
    /\ \E k \in 1..Len(trades) : IsDividendTrade(trades[k])
    /\ position = 1

\* C10: run_backtest has one daily value per processed row, in row order,
\* each with the row's close and the cash and shares as they are after the
\* row's dividend and signal processing
C10_OneSnapshotPerRow ==
    variant \in SnapshotVariants =>
        /\ Len(daily_values) = i
        /\ \A k \in 1..Len(daily_values) :
            /\ daily_values[k].date = k
            /\ daily_values[k].close = R(close[k])
        /\ i >= 1 =>
            /\ daily_values[i].cash = cash
            /\ daily_values[i].shares = shares
            /\ daily_values[i].total_value = RAdd(cash, RMul(shares, R(close[i])))

\* the run is over, and its last row traded: the last daily value shows the
\* cash and shares after that trade, not those of the row before
C10_Witness ==
    /\ variant = "lot"
    /\ i = Len(close) /\ i >= 3
    /\ Len(trades) > 0 /\ trades[Len(trades)].date = i
    /\ daily_values[i].cash # daily_values[i - 1].cash
    /\ daily_values[i].shares # daily_values[i - 1].shares

\* the simulators that reinvest a dividend at once
ReinvestImmediateVariants == {"lotdiv", "immediate"}

\* the row's effect on shares and cash under reinvest-immediate, when a
\* dividend is due: the holding grows by shares * dividend / price before the
\* signal check, the cash is untouched by the dividend, and a sell on that row
\* sells the grown holding
ReinvestedBeforeSignal ==
    LET price      == R(close[i + 1])
        new_shares == RDiv(DividendDueAmount, price)
        grown      == RAdd(shares, new_shares)
        sold       == \E k \in 1..Len(NewTrades) : IsSell(NewTrades[k])
    IN  /\ RGt(new_shares, R(0))
        /\ \A k \in 1..Len(NewTrades) : ~IsBuy(NewTrades[k])
        /\ ~sold => shares' = grown /\ cash' = cash
        /\ sold => shares' = R(0) /\ cash' = RAdd(cash, RMul(grown, price))
        /\ sold <=> (~IsNaN(rsi[i + 1]) /\ RGt(rsi[i + 1], R(sell_threshold)))

\* the dividend-reinvest record of the row, ahead of the row's sell record
DividendTradeEmitted ==
    LET price      == R(close[i + 1])
        new_shares == RDiv(DividendDueAmount, price)
    IN  /\ Len(NewTrades) >= 1
        /\ IsDividendTrade(NewTrades[1])
        /\ NewTrades[1].date = i + 1
        /\ NewTrades[1].price = price
        /\ NewTrades[1].shares = new_shares
        /\ NewTrades[1].amount = DividendDueAmount
        /\ NewTrades[1].total_shares = RAdd(shares, new_shares)
        /\ NewTrades[1].cash = cash
        /\ \A k \in 2..Len(NewTrades) : IsSell(NewTrades[k])

C12_NoDividendWithoutShares ==
    [][(/\ variant \in DividendVariants
        /\ i < Len(close)
        /\ (i + 1) \in DOMAIN dividend_dict
        /\ shares = R(0))
       => LET price == R(close[i + 1])
          IN  /\ dividend_total' = dividend_total
              /\ dividend_cash' = dividend_cash
              /\ \A k \in 1..Len(NewTrades) : IsBuy(NewTrades[k])
              /\ Len(NewTrades) <= 1
              /\ IsLotMultiple(shares')
              /\ cash' = RSub(cash, RMul(shares', price))
              /\ Len(NewTrades) = 0 => cash' = cash /\ shares' = shares
              /\ Len(NewTrades) = 1 => shares' = shares_to_buy(cash, price)]_vars

\* a reinvest-on-signal run bought on a dividend date and got no dividend
C12_Witness ==
    /\ variant = "on_signal"
    /\ i \in DOMAIN dividend_dict
    /\ Len(trades) = 1 /\ IsBuy(trades[1]) /\ trades[1].date = i
    /\ RGt(shares, R(0))
    /\ dividend_total = R(0)
    /\ cash = RSub(R(INITIAL_CAPITAL), RMul(shares, R(close[i])))

InitialState ==
    [cash |-> R(INITIAL_CAPITAL), shares |-> R(0), position |-> 0, trades |-> <<>>,
     daily_values |-> <<>>, dividend_total |-> R(0), dividend_cash |-> R(0)]

\* row k of the frame
RowAt(k) == [date |-> k, close |-> R(close[k]), rsi |-> rsi[k]]

\* no dividend dates
NoDividends == [d \in {} |-> DividendPerShare]

\* the locals of run_backtest_no_reinvest after the first k rows of the
\* frame, run with the dividends dict
RECURSIVE NoReinvestRun(_, _)
NoReinvestRun(dict, k) ==
    IF k = 0 THEN InitialState
    ELSE NoReinvestRow(NoReinvestRun(dict, k - 1), RowAt(k), dict)

\* C14: under no-reinvest the trading cash, the shares, the position and the
\* trade list (so every buy quantity) are at every row those of the same run
\* without any dividend; the dividends are in the side account only, and the
\* returned final value is cash + shares * last close + side account
C14_SideLedgerOnly ==
    variant = "no_reinvest" =>
        LET plain == NoReinvestRun(NoDividends, i)
        IN  /\ cash = plain.cash
            /\ shares = plain.shares
            /\ position = plain.position
            /\ trades = plain.trades
            /\ plain.dividend_cash = R(0)
            /\ dividend_cash = dividend_total
            /\ result # None =>
                 /\ result.final_value
                      = RAdd(RAdd(cash, RMul(shares, R(close[Len(close)]))), dividend_cash)
                 /\ result.trading_value
                      = Round2(RAdd(cash, RMul(shares, R(close[Len(close)]))))
                 /\ result.dividend_cash = Round2(dividend_cash)

\* a no-reinvest run has returned: it received dividends, sold, bought again
\* and ends long, and its final value is above its trading value by the side
\* account
C14_Witness ==
    /\ variant = "no_reinvest"
    /\ result # None
    /\ RGt(dividend_cash, R(0))
    /\ Len(trades) = 3
    /\ position = 1
    /\ RSub(result.final_value, dividend_cash) = RAdd(cash, RMul(shares, R(close[Len(close)])))

\* C15: every RSI value that is defined lies in [0, 100], whichever
\* calculator computed it, for every price column and every period >= 1
C15_RsiWithinBounds ==
    \A k \in 1..Len(rsi) :
        IsNaN(rsi[k]) \/ (RGe(rsi[k], R(0)) /\ RLe(rsi[k], R(100)))

\* a column computed with period 1 has an RSI of 0, one of 100 and an
\* undefined one after its first row
C15_Witness ==
    /\ period = 1
    /\ rsi # NotComputed
    /\ \E k, m, n \in 2..Len(rsi) :
        rsi[k] = R(0) /\ rsi[m] = R(100) /\ IsNaN(rsi[n])

\* the simulators whose RSI column comes from the Wilder calculator
WilderVariants == Variants \ {"ideal"}

AverageGain(k) ==
    IF variant = "calculate_rsi_ema" THEN EwmAvg(gain(close), period, k)
    ELSE IF variant = "calculate_rsi" THEN WilderAvg(gain(close), period, k)
    ELSE FullOptAverages(gain(close), loss(close), period, k).avg_gain
AverageLoss(k) ==
    IF variant = "calculate_rsi_ema" THEN EwmAvg(loss(close), period, k)
    ELSE IF variant = "calculate_rsi" THEN WilderAvg(loss(close), period, k)
    ELSE FullOptAverages(gain(close), loss(close), period, k).avg_loss

\* C17: on every row from row `period` on whose average loss is 0, the RSI
\* is defined and is 100, the rows whose average gain is 0 as well included
C17_ZeroLossIs100 ==
    rsi # NotComputed =>
        \A k \in period..Len(close) :
            AverageLoss(k) = R(0) => rsi[k] = R(100)

\* a column over prices that have not moved yet: on a row with averages,
\* both are 0 and the RSI is NaN
C17_Witness ==
    /\ rsi # NotComputed
    /\ \E k \in period..Len(close) :
        /\ AverageLoss(k) = R(0)
        /\ AverageGain(k) = R(0)
        /\ IsNaN(rsi[k])

\* a call of run_backtest has been entered
Entered == locals.phase # "idle"

\* C18: no entry point runs the simulator with buy_threshold >=
\* sell_threshold: no call of run_backtest is entered with such arguments,
\* and nothing it returned is among the results
C18_NeverRunsBuyNotBelowSell ==
    /\ Entered => buy_threshold < sell_threshold
    /\ \A k \in 1..Len(results) :
        results[k] # None => results[k].buy_threshold < results[k].sell_threshold

\* run_backtest, called by itself with buy_threshold >= sell_threshold, has
\* run over all rows and returned a result that shows a completed trade
C18_Witness ==
    /\ entry = "run_backtest"
    /\ locals.phase = "returned"
    /\ buy_threshold >= sell_threshold
    /\ Len(results) = 1
    /\ results[1].buy_threshold = buy_threshold
    /\ results[1].trade_count >= 1

\* C20: every call of the sweep starts from fresh locals (cash = initial
\* capital, no shares, flat), no step changes the price column of the shared
\* frame or a result already returned, and what a call returns for (period,
\* buy, sell) is what run_backtest returns for these arguments by itself
C20_RunsAreIndependent ==
    /\ [](/\ (locals.phase = "first_loop" /\ locals.row = 0) =>
                /\ locals.o.cash = R(INITIAL_CAPITAL)
                /\ locals.o.shares = R(0)
                /\ locals.o.position = 0
                /\ locals.o.trade_count = 0
          /\ locals.phase = "returned" =>
                /\ Len(results) >= 1
                /\ <<period, buy_threshold, sell_threshold>> = combinations[Len(results)]
                /\ results[Len(results)]
                     = FullOptRunBacktest(close, period, buy_threshold, sell_threshold))
    /\ [][/\ close' = close
          /\ combinations' = combinations
          /\ SubSeq(results', 1, Len(results)) = results]_vars

\* the sweep has returned from a call that followed a call which ended long
\* with less cash than the initial capital
C20_Witness ==
    /\ entry = "main"
    /\ locals.phase = "returned"
    /\ Len(results) >= 2
    /\ results[Len(results) - 1].final_position = "long"
    /\ results[Len(results)].trade_count >= 1
    /\ results[Len(results)] # results[Len(results) - 1]

C21_FailureDoesNotAbortSweep ==
    (entry = "main" /\ locals.phase = "raised") => ENABLED SweepNext

\* a call of the sweep has raised after other calls returned their results
\* and with combinations still to run
C21_Witness ==
    /\ entry = "main"
    /\ locals.phase = "raised"
    /\ Len(results) >= 1
    /\ Len(results) + 1 < Len(combinations)

\* the report of main has been produced
Reported == report # None

\* the entries of a result list with the period p
OfPeriod(res, p) == {k \in 1..Len(res) : res[k].rsi_period = p}

\* C22: the ranking holds every sweep result as often as the sweep returned
\* it, in non-increasing order of total_return; its first entry, the reported
\* best, has the greatest total_return of all; and for each period the first
\* ranked entry of that period, the reported best of the period, has the
\* greatest total_return of that period's results
C22_RankingIsSortedPermutation ==
    Reported =>
        LET ranked == report.results_sorted
        IN  /\ Len(ranked) = Len(results)
            /\ \A k \in 1..Len(results) :
                Cardinality({j \in 1..Len(ranked) : ranked[j] = results[k]})
                    = Cardinality({j \in 1..Len(results) : results[j] = results[k]})
            /\ \A k \in 1..(Len(ranked) - 1) :
                RGe(ranked[k].total_return, ranked[k + 1].total_return)
            /\ report.best = ranked[1]
            /\ \A k \in 1..Len(results) :
                RGe(report.best.total_return, results[k].total_return)
            /\ \A n \in 1..Len(SweepPeriods) :
                LET p     == SweepPeriods[n]
                    first == CHOOSE k \in OfPeriod(ranked, p) :
                                \A j \in OfPeriod(ranked, p) : k <= j
                IN  /\ report.top_by_period[n] = ranked[first]
                    /\ \A k \in OfPeriod(results, p) :
                        RGe(ranked[first].total_return, results[k].total_return)

\* the sweep returned its results in another order than the ranking, with
\* three different returns among them, and the best of one period is not the
\* best of all
C22_Witness ==
    /\ Reported
    /\ report.results_sorted # results
    /\ Cardinality({results[k].total_return : k \in 1..Len(results)}) >= 3
    /\ \E n \in 1..Len(SweepPeriods) :
        RLt(report.top_by_period[n].total_return, report.best.total_return)

\* C23: the number of combinations main reports as beating buy-and-hold is
\* the number of sweep results whose total_return is strictly greater than
\* the buy-and-hold return of the frame, a result equal to it not counted;
\* the percentage it reports is that number over the number of combinations
\* run, times 100; and the number is at most the size of the grid
C23_BeatingCountAndFraction ==
    Reported =>
        LET baseline == BuyholdReturn(close)
            beating  == {k \in 1..Len(results) : RGt(results[k].total_return, baseline)}
            count    == Len(report.beating_buyhold)
        IN  /\ report.buyhold_return = baseline
            /\ count = Cardinality(beating)
            /\ \A k \in 1..count : RGt(report.beating_buyhold[k].total_return, baseline)
            /\ report.total_combinations = Len(results)
            /\ RMul(report.beating_percent, R(Len(results))) = R(count * 100)
            /\ count <= Len(results)
            /\ Len(results) <= Len(AllCombinations)

\* some combinations beat buy-and-hold, and one that ended exactly at the
\* buy-and-hold return is not in the count
C23_Witness ==
    /\ Reported
    /\ Len(report.beating_buyhold) >= 1
    /\ Len(report.beating_buyhold) < Len(results)
    /\ \E k \in 1..Len(results) :
        /\ results[k].total_return = report.buyhold_return
        /\ \A j \in 1..Len(report.beating_buyhold) : report.beating_buyhold[j] # results[k]

\* the rows of the current call of rsi_full_optimization.run_backtest on
\* which it bought: the position was flat before the row and long after it
FullOptBuyRows ==
    LET after(k) == FullOptFirstLoop(FullOptInitial, close, rsi, buy_threshold,
                                     sell_threshold, k)
    IN  {k \in 1..Len(close) : after(k - 1).position = 0 /\ after(k).position = 1}

\* C24: the trade_count the optimizer returns for a run is the number of buys
\* the run executed, the buy of a position still open at the end included
C24_TradeCountIsBuys ==
    locals.phase = "returned" =>
        results[Len(results)].trade_count = Cardinality(FullOptBuyRows)

\* a run of the optimizer has returned; it bought, sold, bought again and
\* ended long
C24_Witness ==
    /\ locals.phase = "returned"
    /\ results[Len(results)].final_position = "long"
    /\ results[Len(results)].trade_count >= 1
    /\ Cardinality(FullOptBuyRows) = results[Len(results)].trade_count + 1

\* the two calculate_statistics
StatisticsEngines ==
    {"rsi_backtest.calculate_statistics", "generate_66_81_data.calculate_statistics"}

\* a calculate_statistics has returned
StatisticsReturned == variant \in StatisticsEngines /\ result.returned

\* the number of trades of the list with the action a
CountOf(tr, a) == Cardinality({m \in 1..Len(tr) : tr[m].action = a})

\* the k-th trade of the list, in list order, with the action a
NthOf(tr, a, k) ==
    tr[CHOOSE m \in 1..Len(tr) :
            /\ tr[m].action = a
            /\ Cardinality({j \in 1..m : tr[j].action = a}) = k]

\* C25: the k-th sell of the trade list is paired with the k-th buy of the
\* list, whatever lies between them; a pair wins iff the sell's price is
\* strictly above the buy's; a sell without a k-th buy wins nothing; win_rate
\* is wins / sells * 100 (to two places), and 0 when there is no sell
C25_WinRatePairsByIndex ==
    StatisticsReturned =>
        LET buys  == CountOf(trades, Buy)
            sells == CountOf(trades, Sell)
            wins  == Cardinality({k \in 1..sells :
                        /\ k <= buys
                        /\ RGt(NthOf(trades, Sell, k).price, NthOf(trades, Buy, k).price)})
        IN  /\ sells = 0 => result.value.win_rate = R(0)
            /\ sells > 0 => result.value.win_rate = Round2(RDiv(R(wins * 100), R(sells)))

\* the statistics of a list with a buy, a sell above the buy's price and a
\* sell at the buy's price: one win, one pair that does not win
C25_Witness ==
    /\ StatisticsReturned
    /\ CountOf(trades, Buy) = 1
    /\ CountOf(trades, Sell) = 2
    /\ \E k \in 1..2 : NthOf(trades, Sell, k).price = NthOf(trades, Buy, 1).price
    /\ result.value.win_rate = R(50)

\* peak = values[0]; max_drawdown = 0; for v in values: ..., over the first k
\* values
RECURSIVE DrawdownPass(_, _)
DrawdownPass(values, k) ==
    IF k = 0 THEN [peak |-> values[1], max_drawdown |-> R(0)]
    ELSE LET before   == DrawdownPass(values, k - 1)
             v        == values[k]
             peak     == IF RGt(v, before.peak) THEN v ELSE before.peak
             drawdown == RMul(RDiv(RSub(peak, v), peak), R(100))
         IN  [peak         |-> peak,
              max_drawdown |-> IF RGt(drawdown, before.max_drawdown) THEN drawdown
                               ELSE before.max_drawdown]

\* the total values of the daily values
TotalValues == [k \in 1..Len(daily_values) |-> daily_values[k].total_value]

\* no total value is below the one before it
NonDecreasing ==
    \A k \in 1..(Len(daily_values) - 1) : RLe(TotalValues[k], TotalValues[k + 1])

\* the reported max_drawdown is that of the forward pass whose peak starts at
\* the first value, to two places, and is >= 0
DrawdownOfForwardPass ==
    /\ result.value.max_drawdown
         = Round2(DrawdownPass(TotalValues, Len(daily_values)).max_drawdown)
    /\ RGe(result.value.max_drawdown, R(0))

\* C26 as claimed: max_drawdown is that of the forward pass, is >= 0, and is
\* 0 exactly when the total value never decreases
C26_ZeroIffNonDecreasing ==
    StatisticsReturned =>
        /\ DrawdownOfForwardPass
        /\ result.value.max_drawdown = R(0) <=> NonDecreasing

\* C26: max_drawdown is that of the forward pass, is >= 0, and is 0 when the
\* total value never decreases; when it is 0, no value lies 0.005 percent of
\* the running peak or more below that peak
C26_ZeroWhenNonDecreasing ==
    StatisticsReturned =>
        /\ DrawdownOfForwardPass
        /\ NonDecreasing => result.value.max_drawdown = R(0)
        /\ result.value.max_drawdown = R(0) =>
              \A k \in 1..Len(daily_values) :
                  LET peak == DrawdownPass(TotalValues, k).peak
                  IN  RLe(RMul(RSub(peak, TotalValues[k]), R(100000)), RMul(peak, R(5)))

\* the total value fell from its peak by less than 0.005 percent and the
\* reported max_drawdown is 0
C26_Witness ==
    /\ StatisticsReturned
    /\ ~NonDecreasing
    /\ result.value.max_drawdown = R(0)

\* C27: calculate_statistics reports the annual return 0 when the first and
\* the last daily value have the same date, and calculate_annual_return
\* reports None when calendar_days <= 0: neither evaluates the power; for a
\* total return of 100 percent over 365 calendar days both report 100
C27_NoDivisionByZeroDays ==
    /\ (variant = "rsi_backtest.calculate_statistics" /\ result.returned) =>
          LET n             == Len(daily_values)
              calendar_days == daily_values[n].date - daily_values[1].date
          IN  /\ result.value.calendar_days = calendar_days
              /\ calendar_days <= 0 => result.value.annual_return = R(0)
              /\ (calendar_days = 365 /\ daily_values[n].return = R(100)) =>
                    result.value.annual_return = R(100)
    /\ (variant = "rsi_backtest.calculate_annual_return" /\ result.returned) =>
          /\ locals.calendar_days <= 0 => result.value = None
          /\ (locals.calendar_days = 365 /\ locals.total_return_pct = R(100)) =>
                result.value = R(100)

\* the statistics of a single daily value that stands at twice the initial
\* capital: no calendar day has passed and the annual return is 0
C27_Witness ==
    /\ variant = "rsi_backtest.calculate_statistics"
    /\ result.returned
    /\ Len(daily_values) = 1
    /\ result.value.total_return = R(100)
    /\ result.value.annual_return = R(0)

\* C28: every calculate_statistics annualises with the number of calendar
\* days between the dates of the first and the last daily value
C28_AnnualisedOverCalendarDays ==
    StatisticsReturned =>
        LET n == Len(daily_values)
        IN  result.value.annual_return
              = AnnualReturn(daily_values[n].return,
                             daily_values[n].date - daily_values[1].date)

\* generate_66_81_data's statistics of two daily values one year apart, the
\* second at twice the initial capital: annualised with the exponent 365 / 2
C28_Witness ==
    /\ variant = "generate_66_81_data.calculate_statistics"
    /\ result.returned
    /\ Len(daily_values) = 2
    /\ daily_values[2].date - daily_values[1].date = 365
    /\ result.value.annual_return = Power(R(2), <<365, 2>>)

\* calculate_benchmark_return is in, or has returned from, its loop over the
\* reference dates
Aligning ==
    /\ variant = "calculate_benchmark_return"
    /\ locals.phase \in {"aligning", "returned"}
    /\ Len(locals.df) > 0
    /\ Len(locals.reference_dates) > 0

\* the dates the benchmark frame has a price for, and the price on one
BenchmarkDates == {locals.df[k].date : k \in 1..Len(locals.df)}
BenchmarkPriceOn(d) ==
    R(locals.df[CHOOSE k \in 1..Len(locals.df) : locals.df[k].date = d].close)

\* the reference dates processed so far that the benchmark has a price for
Matched == {k \in 1..i : locals.reference_dates[k] \in BenchmarkDates}
FirstMatched == CHOOSE k \in Matched : \A j \in Matched : k <= j

\* the benchmark's value on a matched reference date, on the basis of the
\* first matched one
ValueOnBasis(k) ==
    RMul(R(INITIAL_CAPITAL),
         RDiv(BenchmarkPriceOn(locals.reference_dates[k]),
              BenchmarkPriceOn(locals.reference_dates[FirstMatched])))

\* C29: the first entry the aligner emits is that of the first reference date
\* the benchmark has a price for, with total_value = initial capital and
\* return 0; the entry of every later matched reference date has total_value
\* = initial capital * its price / the price on that first matched date
C29_BasisIsFirstMatchedDate ==
    (Aligning /\ Matched # {}) =>
        /\ daily_values[1].date = locals.reference_dates[FirstMatched]
        /\ daily_values[1].total_value = R(INITIAL_CAPITAL)
        /\ daily_values[1].return = R(0)
        /\ locals.start_price = BenchmarkPriceOn(locals.reference_dates[FirstMatched])
        /\ \A k \in Matched :
            \E n \in 1..Len(daily_values) :
                /\ daily_values[n].date = locals.reference_dates[k]
                /\ daily_values[n].total_value = ValueOnBasis(k)
                /\ daily_values[n].return
                     = RMul(RSub(RDiv(ValueOnBasis(k), R(INITIAL_CAPITAL)), R(1)), R(100))

\* the aligner has returned; the benchmark starts before the first reference
\* date it has a price for, at another price, and a later matched date has a
\* third value
C29_Witness ==
    /\ Aligning
    /\ locals.phase = "returned"
    /\ Matched # {}
    /\ locals.df[1].date < locals.reference_dates[FirstMatched]
    /\ R(locals.df[1].close) # locals.start_price
    /\ \E n \in 2..Len(daily_values) :
        /\ daily_values[n].date \in BenchmarkDates
        /\ daily_values[n].total_value # R(INITIAL_CAPITAL)

\* C30: from the first matched reference date on every reference date has
\* its entry, in order; the entry of a date the benchmark has no price for
\* has the total_value and the return of the entry before it, which are
\* those of the last matched date before it
C30_MissingDateCarriesLastValue ==
    (Aligning /\ Matched # {}) =>
        /\ Len(daily_values) = i - FirstMatched + 1
        /\ \A k \in FirstMatched..i :
            LET n == k - FirstMatched + 1
            IN  /\ daily_values[n].date = locals.reference_dates[k]
                /\ k \notin Matched =>
                    /\ daily_values[n].total_value = daily_values[n - 1].total_value
                    /\ daily_values[n].return = daily_values[n - 1].return
                    /\ LET last == CHOOSE j \in Matched :
                                      j < k /\ \A m \in Matched : m < k => m <= j
                       IN  daily_values[n].total_value = ValueOnBasis(last)

\* the aligner has returned; two reference dates in a row are missing from
\* the benchmark, after a matched date whose value is not the initial capital
\* and before a matched date with another value
C30_Witness ==
    /\ Aligning
    /\ locals.phase = "returned"
    /\ \E n \in 2..(Len(daily_values) - 3) :
        /\ daily_values[n].date \in BenchmarkDates
        /\ daily_values[n].total_value # R(INITIAL_CAPITAL)
        /\ daily_values[n + 1].date \notin BenchmarkDates
        /\ daily_values[n + 2].date \notin BenchmarkDates
        /\ daily_values[n + 3].date \in BenchmarkDates
        /\ daily_values[n + 3].total_value # daily_values[n].total_value

\* the dates of the entries of a list of daily values, in order
DatesOf(dv) == [n \in 1..Len(dv) |-> dv[n].date]

\* the reference dates from the k-th on
ReferenceDatesFrom(k) ==
    [n \in 1..(Len(locals.reference_dates) - k + 1) |-> locals.reference_dates[n + k - 1]]

\* the aligner has returned
AlignerReturned == Aligning /\ locals.phase = "returned"

C31_WitnessNoMatch ==
    /\ AlignerReturned
    /\ Matched = {}
    /\ Len(locals.reference_dates) >= 2
    /\ result = <<>>

\* C32: rsi_backtest.run_backtest on a frame with fewer rows than RSI_PERIOD:
\* no row has an RSI, so the signal check of every row takes neither the buy
\* nor the sell branch (the only statements of the loop that divide); no
\* trade is recorded, and the rows taken so far each have their daily value,
\* in row order, with no RSI, cash = initial capital, shares = 0 and the
\* total value of the initial capital
C32_ShortSeriesCompletesFlat ==
    (variant = "lot" /\ Len(close) < period) =>
        /\ \A k \in 1..Len(close) : IsNaN(rsi[k])
        /\ \A k \in 1..Len(close), pos \in {0, 1} :
            Signal(rsi[k], pos, buy_threshold, sell_threshold) = "hold"
        /\ trades = <<>>
        /\ position = 0
        /\ Len(daily_values) = i
        /\ \A n \in 1..Len(daily_values) :
            /\ daily_values[n].date = n
            /\ daily_values[n].rsi = None
            /\ daily_values[n].cash = R(INITIAL_CAPITAL)
            /\ daily_values[n].shares = R(0)
            /\ daily_values[n].total_value = R(INITIAL_CAPITAL)

\* the loop has ended on a frame of two rows with a price fall between them,
\* one row short of the period
C32_Witness ==
    /\ variant = "lot"
    /\ period = 3
    /\ Len(close) = 2
    /\ close[2] < close[1]
    /\ i = Len(close)
    /\ Len(daily_values) = 2
    /\ trades = <<>>

\* the rows of the frame without a close
MissingRows == {k \in 1..Len(close) : IsNaN(close[k])}

\* C33: in rsi_backtest.run_backtest on a frame with missing closes, a row
\* without a close has no RSI, no trade is dated on it, and the loop never
\* raises
C33_MissingPriceBarIsSkipped ==
    (variant = "lot" /\ locals # None) =>
        /\ \A k \in MissingRows : IsNaN(rsi[k])
        /\ \A n \in 1..Len(trades) : trades[n].date \notin MissingRows
        /\ locals.phase # "raised"

\* the run has raised on a row without a close, which has an RSI below the
\* buy threshold, after rows that were processed
C33_Witness ==
    /\ variant = "lot"
    /\ locals # None
    /\ locals.phase = "raised"
    /\ i >= 2
    /\ IsNaN(close[i + 1])
    /\ ~IsNaN(cash)
    /\ ~IsNaN(rsi[i + 1])
    /\ RLt(rsi[i + 1], R(RSI_BUY_THRESHOLD))

\* the simulators the trade records of C34 come from
TradeRecordVariants == {"lot", "lotdiv"}

\* a buy or sell record against the step that appended it: the holding and
\* the cash the signal check started from, and those it left
RecordMatchesStep(t) ==
    /\ t.total_shares = shares'
    /\ t.cash = cash'
    /\ IsBuy(t) =>
        /\ t.shares = RSub(shares', SharesAtSignal)
        /\ t.amount = RSub(CashAtSignal, cash')
    /\ IsSell(t) =>
        /\ t.shares = RSub(SharesAtSignal, shares')
        /\ t.amount = RSub(cash', CashAtSignal)

\* C34: in rsi_backtest.run_backtest and generate_66_81_data.run_backtest
\* every buy and sell record has the change of the holding as shares, the
\* change of the cash as amount, and the holding and the cash after the trade
\* as total_shares and cash
C34_TradeRecordMatchesStateChange ==
    [][(variant \in TradeRecordVariants)
       => \A k \in 1..Len(NewSignalTrades) : RecordMatchesStep(NewSignalTrades[k])]_vars

\* a holding that a reinvested dividend had made a non-multiple of the lot
\* was sold on a later row: the record shows fewer shares than were held the
\* row before, and a smaller amount than the cash received
C34_Witness ==
    /\ variant = "lotdiv"
    /\ i >= 2
    /\ Len(trades) >= 3
    /\ IsSell(trades[Len(trades)])
    /\ trades[Len(trades)].date = i
    /\ ~IsDividendTrade(trades[Len(trades) - 1]) \/ trades[Len(trades) - 1].date < i
    /\ ~IsLotMultiple(daily_values[i - 1].shares)
    /\ RLt(trades[Len(trades)].shares, daily_values[i - 1].shares)
    /\ RLt(trades[Len(trades)].amount, RSub(cash, daily_values[i - 1].cash))
    /\ shares = R(0)

\* the lot-mode simulators whose sell is guarded by `if sell_shares > 0`
GuardedSellVariants == {"lot", "lotdiv"}

\* C35: in the lot-mode simulators a long position holds at least one lot,
\* before and after every step of the loop, and a row that starts long with
\* an RSI above the sell threshold records a sell and ends flat with no
\* shares: the `sell_shares > 0` test never turns a sell signal away
C35_SellSignalNeverBlocked ==
    [][(variant \in GuardedSellVariants)
       => /\ position = 1 => RGe(shares, R(LotSize))
          /\ position' = 1 => RGe(shares', R(LotSize))
          /\ (/\ i < Len(close)
              /\ position = 1
              /\ ~IsNaN(rsi[i + 1])
              /\ RGt(rsi[i + 1], R(sell_threshold)))
             => /\ position' = 0
                /\ shares' = R(0)
                /\ Len(NewSignalTrades) = 1
                /\ IsSell(NewSignalTrades[1])]_vars

\* a run without dividends bought, held over a row and then sold on a sell
\* signal
C35_Witness ==
    /\ variant = "lot"
    /\ i >= 3
    /\ Len(trades) = 2
    /\ IsBuy(trades[1]) /\ trades[1].date <= i - 2
    /\ IsSell(trades[2]) /\ trades[2].date = i
    /\ RGe(daily_values[i - 1].shares, R(LotSize))
    /\ RGt(rsi[i], R(sell_threshold))
    /\ position = 0
    /\ shares = R(0)

\* all in cash, or all invested
FullyInCash(c, sh) == RGt(c, R(0)) /\ sh = R(0)
FullyInvested(c, sh) == c = R(0) /\ RGt(sh, R(0))

\* C36: in run_backtest_ideal every daily value has either cash > 0 and no
\* shares, or shares > 0 and no cash; after each row the run is fully
\* invested when long and fully in cash when flat, and the row's daily value
\* shows that cash and those shares
C36_CashOrSharesNeverBoth ==
    variant = "ideal" =>
        /\ \A k \in 1..Len(daily_values) :
            \/ FullyInCash(daily_values[k].cash, daily_values[k].shares)
            \/ FullyInvested(daily_values[k].cash, daily_values[k].shares)
        /\ position = 1 => FullyInvested(cash, shares)
        /\ position = 0 => FullyInCash(cash, shares)
        /\ i >= 1 => /\ daily_values[i].cash = cash
                     /\ daily_values[i].shares = shares

\* a fractional run was in cash, then invested in a fractional number of
\* shares, then in cash again with another amount
C36_Witness ==
    /\ variant = "ideal"
    /\ \E a, b, c \in 1..Len(daily_values) :
        /\ a < b /\ b < c
        /\ FullyInCash(daily_values[a].cash, daily_values[a].shares)
        /\ FullyInvested(daily_values[b].cash, daily_values[b].shares)
        /\ ~IsInt(daily_values[b].shares)
        /\ FullyInCash(daily_values[c].cash, daily_values[c].shares)
        /\ daily_values[c].cash # R(INITIAL_CAPITAL)

\* the cash, shares and position of the standalone run after row k
StandaloneAfter(k) ==
    <<daily_values[k].cash, daily_values[k].shares,
      IF RGt(daily_values[k].shares, R(0)) THEN 1 ELSE 0>>
\* those of a pass of the optimizer
PassState(o) == <<o.cash, o.shares, o.position>>

\* the buys and the sells of the standalone run, and its index-paired wins
BuyTrades == SelectSeq(trades, IsBuy)
SellTrades == SelectSeq(trades, IsSell)
IndexPairedWins ==
    Cardinality({k \in 1..Len(SellTrades) :
        k <= Len(BuyTrades) /\ RGt(SellTrades[k].price, BuyTrades[k].price)})

\* the drawdown of the standalone run's values up to row k, from a peak that
\* starts at the first value
DrawdownFromFirstValue(k) ==
    MaxDrawdown([n \in 1..k |-> daily_values[n].total_value])

\* the optimizer is in, or past, its call on the frame of the standalone run
CrossChecking == variant = "standalone" /\ locals.phase # "idle"

\* rsi_full_optimization.run_backtest on the frame and the parameters of a
\* standalone lot-mode run: its RSI column is the standalone one; after each
\* row its first pass and its second pass have the cash, the shares and the
\* position the standalone run had after that row; the first daily value is
\* the initial capital, and the drawdown of the second pass, whose peak
\* starts at INITIAL_CAPITAL, is after each row the drawdown of the daily
\* values with the peak starting at the first value; the wins counted
\* against the last buy price are the index-paired wins, over the same
\* sells; and the returned total_return, max_drawdown and win_rate are those
\* calculate_statistics gives for the standalone run
OptimizerAgreesExceptTradeCount ==
    CrossChecking =>
        /\ \A k \in 1..Len(close) :
            daily_values[k].rsi = (IF IsNaN(rsi[k]) THEN None ELSE rsi[k])
        /\ daily_values[1].total_value = R(INITIAL_CAPITAL)
        /\ (locals.phase = "first_loop" /\ locals.row >= 1) =>
                PassState(locals.o) = StandaloneAfter(locals.row)
        /\ locals.phase \in {"second_loop", "returned"} =>
            /\ PassState(locals.o) = StandaloneAfter(Len(close))
            /\ locals.o.wins = IndexPairedWins
            /\ locals.o.trade_count = Len(SellTrades)
        /\ (locals.phase \in {"second_loop", "returned"} /\ locals.row >= 1) =>
            /\ PassState(locals.running) = StandaloneAfter(locals.row)
            /\ locals.running.max_drawdown = DrawdownFromFirstValue(locals.row)
        /\ locals.phase = "returned" =>
            /\ results[1].total_return = result.total_return
            /\ results[1].max_drawdown = result.max_drawdown
            /\ results[1].win_rate = result.win_rate

\* C37: the statistics rsi_full_optimization.run_backtest returns for a frame
\* and parameters are those rsi_backtest.calculate_statistics gives for the
\* standalone lot-mode run on them: the two passes of the optimizer follow
\* the standalone run, the drawdown and the win count agree whatever the
\* initial peak and the pairing, and so do the returned total_return,
\* max_drawdown, win_rate and trade_count
C37_OptimizerAgreesWithStatistics ==
    /\ OptimizerAgreesExceptTradeCount
    /\ (CrossChecking /\ locals.phase = "returned") =>
            results[1].trade_count = result.trade_count

\* the optimizer has returned for a run that bought, sold at a profit, fell
\* below an earlier peak and bought again: every statistic but the trade
\* count is the standalone one
C37_Witness ==
    /\ CrossChecking
    /\ locals.phase = "returned"
    /\ results[1].final_position = "long"
    /\ results[1].win_rate = R(100)
    /\ results[1].win_rate = result.win_rate
    /\ RGt(results[1].max_drawdown, R(0))
    /\ results[1].max_drawdown = result.max_drawdown
    /\ results[1].total_return = result.total_return
    /\ results[1].trade_count = 1
    /\ result.trade_count = 2

\* the combination of result a comes before that of result b in the order
\* main's three loops enumerate the grid: period, then buy threshold, then
\* sell threshold, each ascending
GridBefore(a, b) ==
    \/ a.rsi_period < b.rsi_period
    \/ a.rsi_period = b.rsi_period /\ a.buy_threshold < b.buy_threshold
    \/ /\ a.rsi_period = b.rsi_period
       /\ a.buy_threshold = b.buy_threshold
       /\ a.sell_threshold < b.sell_threshold

\* the place of a result in the ranking, from the grid and the returns alone
GridRank(r) ==
    1 + Cardinality({k \in 1..Len(results) : RGt(results[k].total_return, r.total_return)})
      + Cardinality({k \in 1..Len(results) :
            results[k].total_return = r.total_return /\ GridBefore(results[k], r)})

\* C38: in the ranking of main, results with the same total_return are in
\* the order of the grid (period, buy threshold, sell threshold, ascending);
\* the place of every result is fixed by its return and its combination, the
\* reported best is the first of the grid among the results with the greatest
\* return, and the best of each period the first of the grid among those of
\* the period with the period's greatest return
C38_TiesInGridOrder ==
    Reported =>
        LET ranked == report.results_sorted
        IN  /\ \A a, b \in 1..Len(ranked) :
                (a < b /\ ranked[a].total_return = ranked[b].total_return)
                    => GridBefore(ranked[a], ranked[b])
            /\ \A n \in 1..Len(ranked) : GridRank(ranked[n]) = n
            /\ \A k \in 1..Len(results) :
                \/ results[k] = report.best
                \/ RLt(results[k].total_return, report.best.total_return)
                \/ GridBefore(report.best, results[k])
            /\ \A n \in 1..Len(SweepPeriods) :
                \A k \in OfPeriod(results, SweepPeriods[n]) :
                    \/ results[k] = report.top_by_period[n]
                    \/ RLt(results[k].total_return, report.top_by_period[n].total_return)
                    \/ GridBefore(report.top_by_period[n], results[k])

\* the ranking is not the order of the sweep, the greatest return is that of
\* results of both periods, and a smaller return is shared as well
C38_Witness ==
    /\ Reported
    /\ report.results_sorted # results
    /\ \E k \in 1..Len(results) :
        /\ results[k].total_return = report.best.total_return
        /\ results[k].rsi_period # report.best.rsi_period
    /\ \E a, b \in 1..Len(results) :
        /\ a # b
        /\ results[a].total_return = results[b].total_return
        /\ RLt(results[a].total_return, report.best.total_return)


(***************************************************************************)
(* Weekly-signal backtest.                                                 *)
(***************************************************************************)
\* the signal the weekly backtest holds on a date, after "更新当周RSI"
HeldSignal(date) ==
    IF date \in DOMAIN locals.weekly_signals THEN locals.weekly_signals[date]
    ELSE locals.current_week_rsi

\* the trades dated from a weekly bar with a defined RSI up to the day before
\* the next such bar
TradesOfSignal(tr, d) ==
    {k \in 1..Len(tr) :
        /\ tr[k].date >= d
        /\ \A e \in DOMAIN locals.weekly_signals : e > d => tr[k].date < e}

\* C39: in the weekly-signal backtest each weekly RSI value triggers at most
\* one trade: a row of the daily frame adds at most one trade, a trade needs a
\* held signal and clears it, so that no trade follows until a later daily date
\* that is a weekly bar with a defined RSI; a held signal that causes no trade
\* is kept as it is until such a date replaces it.
C39_WeeklySignalUsedOnce ==
    [][(variant = "weekly" /\ i' = i + 1) =>
        /\ Len(trades') <= Len(trades) + 1
        /\ SubSeq(trades', 1, Len(trades)) = trades
        /\ trades' # trades =>
            /\ HeldSignal(i + 1) # None
            /\ locals'.current_week_rsi = None
        /\ trades' = trades => locals'.current_week_rsi = HeldSignal(i + 1)
        /\ (locals.current_week_rsi = None /\ (i + 1) \notin DOMAIN locals.weekly_signals)
            => trades' = trades
        /\ \A d \in DOMAIN locals.weekly_signals :
            Cardinality(TradesOfSignal(trades', d)) <= 1
        /\ \A k \in 1..Len(trades') :
            \E d \in DOMAIN locals.weekly_signals : d <= trades'[k].date]_vars

\* a buy on a day after the weekly bar whose signal it uses (the signal was
\* kept while the price was above the cash for one lot), then a sell on the
\* signal of a later weekly bar, and rows after the sell without a trade
C39_Witness ==
    /\ variant = "weekly"
    /\ result # None
    /\ Len(trades) = 2
    /\ trades[1].action = Buy
    /\ trades[1].date \notin DOMAIN locals.weekly_signals
    /\ trades[2].action = Sell
    /\ trades[2].date \in DOMAIN locals.weekly_signals
    /\ trades[2].date < Len(close)
    /\ locals.current_week_rsi = None


(***************************************************************************)
(* Monitoring runner.                                                      *)
(***************************************************************************)
\* the latest RSI is valid and strictly below the buy threshold, or strictly
\* above the sell threshold
BelowBuy == locals.rsi # None /\ RLt(locals.rsi, R(buy_threshold))
AboveSell == locals.rsi # None /\ RGt(locals.rsi, R(sell_threshold))

\* main has run to its end
RunnerDone == variant = "runner" /\ locals.pc = "done"

\* the kind of alert a finished run has sent: the subject of its WeChat push
AlertSent == IF locals.send_wechat = <<>> THEN "" ELSE locals.send_wechat[1].title

\* C40: in the monitoring runner the notifications (one email per subscriber
\* and the WeChat push) are attempted iff the latest RSI is strictly below the
\* buy threshold or strictly above the sell threshold, and the signal written
\* to data.json agrees with that decision (buy label iff buy alert, sell label
\* iff sell alert, hold label iff nothing sent), for every pair of thresholds,
\* buy >= sell included; without a valid RSI nothing is sent and no data file
\* is written.
C40_AlertAndLabelAgree ==
    variant = "runner" =>
        \* nothing is sent and written before the RSI is there, nor without it
        /\ (locals.pc \in {"fetch", "fetched"} \/ locals.rsi = None) =>
            /\ locals.send_email = <<>>
            /\ locals.send_wechat = <<>>
            /\ locals.data = None
        \* a valid RSI is the last row's RSI of a frame with enough rows
        /\ locals.pc # "fetch" =>
            (locals.rsi = None <=>
                \/ NotEnoughData(locals.df_is_none, close, period)
                \/ IsNaN(rsi[Len(close)]))
        \* whatever is sent is sent on a signal
        /\ (locals.send_email # <<>> \/ locals.send_wechat # <<>>) => (BelowBuy \/ AboveSell)
        /\ (RunnerDone /\ locals.rsi # None) =>
            /\ locals.data # None
            /\ locals.send_wechat # <<>> <=> (BelowBuy \/ AboveSell)
            /\ Len(locals.send_wechat) <= 1
            /\ IF BelowBuy \/ AboveSell
               THEN /\ Len(locals.send_email) = Len(locals.subscribers)
                    /\ \A k \in 1..Len(locals.subscribers) :
                        /\ locals.send_email[k].to_email = locals.subscribers[k]
                        /\ locals.send_email[k].subject = AlertSent
               ELSE locals.send_email = <<>>
            /\ locals.data.signal = Buy <=> AlertSent = Buy
            /\ locals.data.signal = Sell <=> AlertSent = Sell
            /\ locals.data.signal = "hold" <=> AlertSent = ""
            /\ locals.data.signal \in {Buy, Sell, "hold"}
            /\ BelowBuy => AlertSent = Buy
            /\ (AboveSell /\ ~BelowBuy) => AlertSent = Sell

\* a finished run with the buy threshold above the sell threshold and the RSI
\* strictly between them: both subscribers and WeChat got the buy alert and
\* data.json says buy
C40_Witness ==
    /\ RunnerDone
    /\ buy_threshold >= sell_threshold
    /\ BelowBuy
    /\ AboveSell
    /\ Len(locals.send_email) = 2
    /\ AlertSent = Buy
    /\ locals.data # None
    /\ locals.data.signal = Buy

=============================================================================
